---- MODULE Spec2Model ----
(***************************************************************************)
(* The YAML override-merge engine of pkg/api (utils.go): findNodeByKey,    *)
(* mergeYAMLNodes, mergeMappingNodes, overrideSequenceNodes,               *)
(* mergeSequenceDictionaries and their helpers, over a heap of yaml.Node   *)
(* values addressed by pointer.  Node.Content is a Go slice: a backing     *)
(* array, a length and the array's capacity.  Around it (api.go):          *)
(* overrideYAML, Resource.patchExamples, Resource.Unmarshal and            *)
(* Product.Unmarshal over files that are absent, malformed or parsed.      *)
(* The generator side (GenSpec): TemplateData.writeFile over the output    *)
(* files, breakLineByLength, getDependency over an options map iterated in *)
(* any order, and ArgumentSpec.buildModuleConstraints.                     *)
(***************************************************************************)
EXTENDS Integers, Sequences, FiniteSets, TLC

VARIABLES heap, heap0, root, override, call, found, pc, env, err, handed,
          args, files, ret

vars == <<heap, heap0, root, override, call, found, pc, env, err, handed, args, files, ret>>

RECURSIVE Load(_, _), LoadAll(_, _, _), Tree(_, _), TreeList(_, _, _)
RECURSIVE findNodeByKey(_, _, _), findInChildren(_, _, _, _), findInPairs(_, _, _, _)
RECURSIVE mergeYAMLNodes(_, _, _), mergeMappingNodes(_, _, _), mergeMappingLoop(_, _, _, _)
RECURSIVE overrideSequenceNodes(_, _, _), mergeSequenceDictionaries(_, _, _)
RECURSIVE mergeSequenceItem(_, _, _), mergeSequenceLoop(_, _, _, _)
RECURSIVE findKeyIndex(_, _, _, _), findIdentifyingKeyValue(_, _, _), identifyingLoop(_, _, _, _)
RECURSIVE shouldDropItem(_, _), shouldDropLoop(_, _, _), removeItemFromSequence(_, _, _)
RECURSIVE findIdentifyingKeyValue_ByPriority(_, _, _)
RECURSIVE findMatchIndex(_, _, _, _), goAppend(_, _, _), mergeSequencePrefix(_, _, _, _)
RECURSIVE findInChildren_RightToLeft(_, _, _, _), shouldDropLoop_BoolTagOnly(_, _, _)
RECURSIVE mergeMappingLoop_AlwaysAppend(_, _, _, _)
RECURSIVE Cat(_), JoinBytes(_), cleanLoop(_, _, _, _, _), backUp(_, _, _), elementEnd(_, _)
RECURSIVE findScalarKeyIndex(_, _, _, _), patchLoop(_, _, _, _)
RECURSIVE Encode(_, _), EncodeList(_, _, _)

(***************************************************************************)
(* Bound of the explored inputs: the number of fields that the mappings of *)
(* base and override hold together; no mapping holds more than MaxPairs    *)
(* fields and no sequence more than MaxItems elements.                     *)
(***************************************************************************)
MaxSize == 4
MaxPairs == MaxSize \div 2
MaxItems == MaxSize \div 2

(***************************************************************************)
(* yaml.Node: kinds, the nil pointer, the nil slice.                       *)
(***************************************************************************)
ZeroKind == "ZeroKind"
DocumentNode == "DocumentNode"
SequenceNode == "SequenceNode"
MappingNode == "MappingNode"
ScalarNode == "ScalarNode"

Nil == 0
NilSlice == [arr |-> 0, len |-> 0]
EmptyHeap == [nodes |-> <<>>, arrays |-> <<>>]

\* The elements of node n's Content slice, in order.
Content(h, n) ==
    LET s == h.nodes[n].Content
    IN IF s.arr = 0 THEN <<>> ELSE SubSeq(h.arrays[s.arr], 1, s.len)

Kind(h, n) == h.nodes[n].Kind
Value(h, n) == h.nodes[n].Value
Tag(h, n) == h.nodes[n].Tag
ContentLen(h, n) == h.nodes[n].Content.len
\* node.Content[i], with Go's 0-based index.
ContentAt(h, n, i) == h.arrays[h.nodes[n].Content.arr][i + 1]
SliceCap(h, s) == IF s.arr = 0 THEN 0 ELSE Len(h.arrays[s.arr])

\* The capacity Go's append gives a grown slice of pointers (doubling, or the
\* needed length if larger, rounded up to an allocation size class).
GrowCap(oldCap, needed) ==
    LET want == IF needed > 2 * oldCap THEN needed ELSE 2 * oldCap
    IN IF want <= 4 THEN want ELSE want + (want % 2)

Pad(ids, cap) == [i \in 1..cap |-> IF i <= Len(ids) THEN ids[i] ELSE Nil]

\* append(node.Content, elems...): in place while the capacity allows, else
\* into a fresh backing array.
goAppend(h, n, elems) ==
    LET s == h.nodes[n].Content
        needed == s.len + Len(elems)
        old == Content(h, n)
    IN IF needed <= SliceCap(h, s)
       THEN [h EXCEPT
               !.arrays[s.arr] = [i \in 1..Len(@) |->
                   IF i > s.len /\ i <= needed THEN elems[i - s.len] ELSE @[i]],
               !.nodes[n].Content.len = needed]
       ELSE LET a == Len(h.arrays) + 1
            IN [h EXCEPT
                  !.arrays = Append(@, Pad(old \o elems, GrowCap(SliceCap(h, s), needed))),
                  !.nodes[n].Content = [arr |-> a, len |-> needed]]

(***************************************************************************)
(* Document trees as values, and yaml.Unmarshal into a yaml.Node: the      *)
(* parser allocates one node per tree node and appends children one at a   *)
(* time.                                                                   *)
(***************************************************************************)
ParsedCap(n) == IF n <= 2 THEN n ELSE IF n <= 4 THEN 4 ELSE 8

LoadAll(h, ts, ids) ==
    IF Len(ids) = Len(ts)
    THEN [h |-> h, ids |-> ids]
    ELSE LET r == Load(h, ts[Len(ids) + 1])
         IN LoadAll(r.h, ts, Append(ids, r.id))

Load(h, t) ==
    LET r == LoadAll(h, t.Content, <<>>)
        n == Len(r.ids)
        h1 == IF n = 0 THEN r.h
              ELSE [r.h EXCEPT !.arrays = Append(@, Pad(r.ids, ParsedCap(n)))]
        s == IF n = 0 THEN NilSlice ELSE [arr |-> Len(h1.arrays), len |-> n]
        h2 == [h1 EXCEPT !.nodes = Append(@,
                 [Kind |-> t.Kind, Value |-> t.Value, Tag |-> t.Tag, Content |-> s])]
    IN [h |-> h2, id |-> Len(h2.nodes)]

TreeList(h, ids, i) ==
    IF i > Len(ids) THEN <<>> ELSE <<Tree(h, ids[i])>> \o TreeList(h, ids, i + 1)

\* The document tree reachable from node n, as a value.
Tree(h, n) ==
    [Kind |-> Kind(h, n), Value |-> Value(h, n), Tag |-> Tag(h, n),
     Content |-> TreeList(h, Content(h, n), 1)]

(***************************************************************************)
(* findNodeByKey: the first value paired with a scalar key equal to key,   *)
(* or Nil.                                                                 *)
(***************************************************************************)
\* The children searched from the last to the first.
findInChildren_RightToLeft(h, ids, i, key) ==
    IF i > Len(ids) THEN Nil
    ELSE LET f == findNodeByKey(h, ids[Len(ids) + 1 - i], key)
         IN IF f # Nil THEN f ELSE findInChildren_RightToLeft(h, ids, i + 1, key)

findInChildren(h, ids, i, key) ==
    IF i > Len(ids) THEN Nil
    ELSE LET f == findNodeByKey(h, ids[i], key)
         IN IF f # Nil THEN f ELSE findInChildren(h, ids, i + 1, key)

\* The mapping case looking at every direct key before any value.
findInPairs_DirectFirst(h, node, i, key) ==
    LET j == findKeyIndex(h, node, key, 0)
    IN IF j >= 0 /\ Kind(h, ContentAt(h, node, j)) = ScalarNode
       THEN ContentAt(h, node, j + 1)
       ELSE findInChildren(h, Content(h, node), 1, key)

findInPairs(h, node, i, key) ==
    IF ~(i < ContentLen(h, node)) THEN Nil
    ELSE LET keyNode == ContentAt(h, node, i)
             valueNode == ContentAt(h, node, i + 1)
         IN IF Kind(h, keyNode) = ScalarNode /\ Value(h, keyNode) = key
            THEN valueNode
            ELSE LET f == findNodeByKey(h, valueNode, key)
                 IN IF f # Nil THEN f ELSE findInPairs(h, node, i + 2, key)

findNodeByKey(h, node, key) ==
    CASE Kind(h, node) = DocumentNode -> findInChildren(h, Content(h, node), 1, key)
      [] Kind(h, node) = MappingNode -> findInPairs(h, node, 0, key)
      [] Kind(h, node) = SequenceNode -> findInChildren(h, Content(h, node), 1, key)
      [] OTHER -> Nil

(***************************************************************************)
(* mergeSequenceDictionaries and its helpers.                              *)
(***************************************************************************)
identifyingKeys == <<"name", "id">>

NoPair == [found |-> FALSE, key |-> "", value |-> ""]

identifyingLoop(h, mappingNode, keys, i) ==
    IF ~(i < ContentLen(h, mappingNode)) THEN NoPair
    ELSE IF i + 1 >= ContentLen(h, mappingNode) THEN NoPair
    ELSE LET keyNode == ContentAt(h, mappingNode, i)
             valueNode == ContentAt(h, mappingNode, i + 1)
         IN IF Kind(h, keyNode) # ScalarNode \/ Kind(h, valueNode) # ScalarNode
            THEN identifyingLoop(h, mappingNode, keys, i + 2)
            ELSE IF \E k \in 1..Len(keys) : Value(h, keyNode) = keys[k]
            THEN [found |-> TRUE, key |-> Value(h, keyNode), value |-> Value(h, valueNode)]
            ELSE identifyingLoop(h, mappingNode, keys, i + 2)

\* findIdentifyingKeyValue looking for each identifying key in turn over the
\* whole mapping: the priority of the keys, not the order of the fields.
findIdentifyingKeyValue_ByPriority(h, mappingNode, keys) ==
    IF Kind(h, mappingNode) # MappingNode \/ keys = <<>> THEN NoPair
    ELSE LET r == identifyingLoop(h, mappingNode, <<Head(keys)>>, 0)
         IN IF r.found THEN r ELSE findIdentifyingKeyValue_ByPriority(h, mappingNode, Tail(keys))

findIdentifyingKeyValue(h, mappingNode, keys) ==
    IF Kind(h, mappingNode) # MappingNode THEN NoPair
    ELSE identifyingLoop(h, mappingNode, keys, 0)

\* shouldDropItem accepting a boolean true only, not the string "true".
shouldDropLoop_BoolTagOnly(h, item, i) ==
    IF ~(i < ContentLen(h, item)) THEN FALSE
    ELSE IF i + 1 >= ContentLen(h, item) THEN FALSE
    ELSE LET keyNode == ContentAt(h, item, i)
             valueNode == ContentAt(h, item, i + 1)
         IN IF Kind(h, keyNode) = ScalarNode /\ Value(h, keyNode) = "_drop"
               /\ Kind(h, valueNode) = ScalarNode
            THEN Tag(h, valueNode) = "!!bool" /\ Value(h, valueNode) = "true"
            ELSE shouldDropLoop_BoolTagOnly(h, item, i + 2)

shouldDropLoop(h, item, i) ==
    IF ~(i < ContentLen(h, item)) THEN FALSE
    ELSE IF i + 1 >= ContentLen(h, item) THEN FALSE
    ELSE LET keyNode == ContentAt(h, item, i)
             valueNode == ContentAt(h, item, i + 1)
         IN IF Kind(h, keyNode) = ScalarNode /\ Value(h, keyNode) = "_drop"
               /\ Kind(h, valueNode) = ScalarNode
            THEN Value(h, valueNode) = "true"
                 \/ (Tag(h, valueNode) = "!!bool" /\ Value(h, valueNode) = "true")
            ELSE shouldDropLoop(h, item, i + 2)

shouldDropItem(h, item) ==
    IF Kind(h, item) # MappingNode THEN FALSE ELSE shouldDropLoop(h, item, 0)

\* The 1-based position of the first element of ids that is the pointer item, or 0.
IndexOf(ids, item) ==
    IF \E i \in 1..Len(ids) : ids[i] = item
    THEN CHOOSE i \in 1..Len(ids) : ids[i] = item /\ \A j \in 1..(i - 1) : ids[j] # item
    ELSE 0

\* removeItemFromSequence keeping Content[:indexToRemove] only.
removeItemFromSequence_Truncate(h, sequenceNode, itemToRemove) ==
    IF Kind(h, sequenceNode) # SequenceNode THEN h
    ELSE LET indexToRemove == IndexOf(Content(h, sequenceNode), itemToRemove)
         IN IF indexToRemove = 0 THEN h
            ELSE [h EXCEPT !.nodes[sequenceNode].Content.len = indexToRemove - 1]

removeItemFromSequence(h, sequenceNode, itemToRemove) ==
    IF Kind(h, sequenceNode) # SequenceNode THEN h
    ELSE LET s == h.nodes[sequenceNode].Content
             indexToRemove == IndexOf(Content(h, sequenceNode), itemToRemove)
         IN IF indexToRemove = 0 THEN h
            ELSE [h EXCEPT
                    !.arrays[s.arr] = [i \in 1..Len(@) |->
                        IF i >= indexToRemove /\ i < s.len THEN @[i + 1] ELSE @[i]],
                    !.nodes[sequenceNode].Content.len = s.len - 1]

\* The 1-based position in originals, from i on, of the first mapping whose
\* identifying pair equals ident, or 0.
findMatchIndex(h, originals, ident, i) ==
    IF i > Len(originals) THEN 0
    ELSE LET originalItem == originals[i]
             originalIdentifier == findIdentifyingKeyValue(h, originalItem, identifyingKeys)
         IN IF Kind(h, originalItem) = MappingNode
               /\ originalIdentifier.found
               /\ originalIdentifier.key = ident.key
               /\ originalIdentifier.value = ident.value
            THEN i
            ELSE findMatchIndex(h, originals, ident, i + 1)

\* mergeSequenceItem not recording the match: the merged item is appended too.
mergeSequenceItem_MatchNotRecorded(h, node, overrideItem) ==
    IF Kind(h, overrideItem) # MappingNode THEN h
    ELSE LET overrideIdentifier == findIdentifyingKeyValue(h, overrideItem, identifyingKeys)
         IN IF ~overrideIdentifier.found
            THEN goAppend(h, node, <<overrideItem>>)
            ELSE LET originals == Content(h, node)
                     m == findMatchIndex(h, originals, overrideIdentifier, 1)
                 IN IF m = 0
                    THEN goAppend(h, node, <<overrideItem>>)
                    ELSE IF shouldDropItem(h, overrideItem)
                    THEN removeItemFromSequence(h, node, originals[m])
                    ELSE goAppend(mergeMappingNodes(h, originals[m], overrideItem),
                                  node, <<overrideItem>>)

\* mergeSequenceItem skipping an item without an identifying key.
mergeSequenceItem_SkipUnidentified(h, node, overrideItem) ==
    IF Kind(h, overrideItem) # MappingNode THEN h
    ELSE LET overrideIdentifier == findIdentifyingKeyValue(h, overrideItem, identifyingKeys)
         IN IF ~overrideIdentifier.found
            THEN h
            ELSE LET originals == Content(h, node)
                     m == findMatchIndex(h, originals, overrideIdentifier, 1)
                 IN IF m = 0
                    THEN goAppend(h, node, <<overrideItem>>)
                    ELSE IF shouldDropItem(h, overrideItem)
                    THEN removeItemFromSequence(h, node, originals[m])
                    ELSE mergeMappingNodes(h, originals[m], overrideItem)

\* One iteration of the loop over override.Content.
mergeSequenceItem(h, node, overrideItem) ==
    IF Kind(h, overrideItem) # MappingNode THEN h
    ELSE LET overrideIdentifier == findIdentifyingKeyValue(h, overrideItem, identifyingKeys)
         IN IF ~overrideIdentifier.found
            THEN goAppend(h, node, <<overrideItem>>)
            ELSE LET originals == Content(h, node)
                     m == findMatchIndex(h, originals, overrideIdentifier, 1)
                 IN IF m = 0
                    THEN goAppend(h, node, <<overrideItem>>)
                    ELSE IF shouldDropItem(h, overrideItem)
                    THEN removeItemFromSequence(h, node, originals[m])
                    ELSE mergeMappingNodes(h, originals[m], overrideItem)

\* The heap after the iterations for items[i..]; items is override.Content as
\* the range statement read it.
mergeSequenceLoop(h, node, items, i) ==
    IF i > Len(items) THEN h
    ELSE mergeSequenceLoop(mergeSequenceItem(h, node, items[i]), node, items, i + 1)

mergeSequenceDictionaries(h, node, override_) ==
    mergeSequenceLoop(h, node, Content(h, override_), 1)

\* The heap when the loop over override.Content has done its first n iterations.
mergeSequencePrefix(h, node, items, n) ==
    IF n = 0 THEN h
    ELSE mergeSequenceItem(mergeSequencePrefix(h, node, items, n - 1), node, items[n])

(***************************************************************************)
(* overrideSequenceNodes, mergeMappingNodes, mergeYAMLNodes.               *)
(***************************************************************************)
\* overrideSequenceNodes leaving the original list when the override is empty.
overrideSequenceNodes_KeepOnEmpty(h, node, override_) ==
    IF ContentLen(h, override_) = 0
    THEN h
    ELSE LET items == Content(h, override_)
             containsDictionaries == \E i \in 1..Len(items) : Kind(h, items[i]) = MappingNode
         IN IF ~containsDictionaries
            THEN [h EXCEPT !.nodes[node].Content = h.nodes[override_].Content]
            ELSE mergeSequenceDictionaries(h, node, override_)

overrideSequenceNodes(h, node, override_) ==
    IF ContentLen(h, override_) = 0
    THEN [h EXCEPT !.nodes[node].Content = h.nodes[override_].Content]
    ELSE LET items == Content(h, override_)
             containsDictionaries == \E i \in 1..Len(items) : Kind(h, items[i]) = MappingNode
         IN IF ~containsDictionaries
            THEN [h EXCEPT !.nodes[node].Content = h.nodes[override_].Content]
            ELSE mergeSequenceDictionaries(h, node, override_)

\* The 0-based index j of the first key of node, from j on, whose Value is v, or -1.
\* findKeyIndex looking at one pair only.
findKeyIndex_OnePair(h, node, v, j) ==
    IF ~(j < ContentLen(h, node)) THEN -1
    ELSE IF j + 1 >= ContentLen(h, node) THEN -1
    ELSE IF Value(h, ContentAt(h, node, j)) = v THEN j
    ELSE -1

findKeyIndex(h, node, v, j) ==
    IF ~(j < ContentLen(h, node)) THEN -1
    ELSE IF j + 1 >= ContentLen(h, node) THEN -1
    ELSE IF Value(h, ContentAt(h, node, j)) = v THEN j
    ELSE findKeyIndex(h, node, v, j + 2)

\* mergeMappingNodes' loop without the append of a key that node lacks.
mergeMappingLoop_NoAppend(h, node, override_, i) ==
    IF ~(i < ContentLen(h, override_)) THEN h
    ELSE IF i + 1 >= ContentLen(h, override_) THEN h
    ELSE LET overrideKey == ContentAt(h, override_, i)
             overrideValue == ContentAt(h, override_, i + 1)
             j == findKeyIndex(h, node, Value(h, overrideKey), 0)
         IN IF j >= 0
            THEN mergeMappingLoop(
                     mergeYAMLNodes(h, ContentAt(h, node, j + 1), overrideValue),
                     node, override_, i + 2)
            ELSE mergeMappingLoop(h, node, override_, i + 2)

\* mergeMappingNodes' loop appending the override pair after a merge too.
mergeMappingLoop_AlwaysAppend(h, node, override_, i) ==
    IF ~(i < ContentLen(h, override_)) THEN h
    ELSE IF i + 1 >= ContentLen(h, override_) THEN h
    ELSE LET overrideKey == ContentAt(h, override_, i)
             overrideValue == ContentAt(h, override_, i + 1)
             j == findKeyIndex(h, node, Value(h, overrideKey), 0)
             h1 == IF j >= 0
                   THEN mergeYAMLNodes(h, ContentAt(h, node, j + 1), overrideValue)
                   ELSE h
         IN mergeMappingLoop_AlwaysAppend(
                goAppend(h1, node, <<overrideKey, overrideValue>>), node, override_, i + 2)

mergeMappingLoop(h, node, override_, i) ==
    IF ~(i < ContentLen(h, override_)) THEN h
    ELSE IF i + 1 >= ContentLen(h, override_) THEN h
    ELSE LET overrideKey == ContentAt(h, override_, i)
             overrideValue == ContentAt(h, override_, i + 1)
             j == findKeyIndex(h, node, Value(h, overrideKey), 0)
         IN IF j >= 0
            THEN mergeMappingLoop(
                     mergeYAMLNodes(h, ContentAt(h, node, j + 1), overrideValue),
                     node, override_, i + 2)
            ELSE mergeMappingLoop(
                     goAppend(h, node, <<overrideKey, overrideValue>>),
                     node, override_, i + 2)

\* mergeMappingNodes clearing node on an empty override, as the sequence rule does.
mergeMappingNodes_ClearOnEmpty(h, node, override_) ==
    IF ContentLen(h, override_) = 0
    THEN [h EXCEPT !.nodes[node].Content = h.nodes[override_].Content]
    ELSE mergeMappingLoop(h, node, override_, 0)

mergeMappingNodes(h, node, override_) == mergeMappingLoop(h, node, override_, 0)

\* mergeYAMLNodes copying the scalar's Value but not its Tag.
mergeYAMLNodes_ValueOnly(h, root_, override_) ==
    IF root_ = Nil \/ override_ = Nil THEN h
    ELSE IF Kind(h, root_) = DocumentNode /\ Kind(h, override_) = DocumentNode
    THEN IF ContentLen(h, root_) > 0 /\ ContentLen(h, override_) > 0
         THEN mergeYAMLNodes(h, ContentAt(h, root_, 0), ContentAt(h, override_, 0))
         ELSE h
    ELSE IF Kind(h, root_) = MappingNode /\ Kind(h, override_) = MappingNode
    THEN mergeMappingNodes(h, root_, override_)
    ELSE IF Kind(h, root_) = SequenceNode /\ Kind(h, override_) = SequenceNode
    THEN overrideSequenceNodes(h, root_, override_)
    ELSE IF Kind(h, override_) = ScalarNode
    THEN [h EXCEPT !.nodes[root_].Value = Value(h, override_)]
    ELSE h

\* mergeYAMLNodes giving root the kind and children of an override collection
\* of another kind.
mergeYAMLNodes_ReplaceOnMismatch(h, root_, override_) ==
    IF root_ = Nil \/ override_ = Nil THEN h
    ELSE IF Kind(h, root_) = DocumentNode /\ Kind(h, override_) = DocumentNode
    THEN IF ContentLen(h, root_) > 0 /\ ContentLen(h, override_) > 0
         THEN mergeYAMLNodes(h, ContentAt(h, root_, 0), ContentAt(h, override_, 0))
         ELSE h
    ELSE IF Kind(h, root_) = MappingNode /\ Kind(h, override_) = MappingNode
    THEN mergeMappingNodes(h, root_, override_)
    ELSE IF Kind(h, root_) = SequenceNode /\ Kind(h, override_) = SequenceNode
    THEN overrideSequenceNodes(h, root_, override_)
    ELSE IF Kind(h, override_) = ScalarNode
    THEN [h EXCEPT !.nodes[root_].Value = Value(h, override_),
                   !.nodes[root_].Tag = Tag(h, override_)]
    ELSE IF Kind(h, override_) \in {MappingNode, SequenceNode}
    THEN [h EXCEPT !.nodes[root_].Kind = Kind(h, override_),
                   !.nodes[root_].Content = h.nodes[override_].Content]
    ELSE h

mergeYAMLNodes(h, root_, override_) ==
    IF root_ = Nil \/ override_ = Nil THEN h
    ELSE IF Kind(h, root_) = DocumentNode /\ Kind(h, override_) = DocumentNode
    THEN IF ContentLen(h, root_) > 0 /\ ContentLen(h, override_) > 0
         THEN mergeYAMLNodes(h, ContentAt(h, root_, 0), ContentAt(h, override_, 0))
         ELSE h
    ELSE IF Kind(h, root_) = MappingNode /\ Kind(h, override_) = MappingNode
    THEN mergeMappingNodes(h, root_, override_)
    ELSE IF Kind(h, root_) = SequenceNode /\ Kind(h, override_) = SequenceNode
    THEN overrideSequenceNodes(h, root_, override_)
    ELSE IF Kind(h, override_) = ScalarNode
    THEN [h EXCEPT !.nodes[root_].Value = Value(h, override_),
                   !.nodes[root_].Tag = Tag(h, override_)]
    ELSE h

(***************************************************************************)
(* Strings.  A Go string is modelled by its bytes where the code looks     *)
(* inside it: a sequence of elements, each "/" or "." or a run of other    *)
(* bytes.  path.Join and path.Clean work on that sequence.                 *)
(***************************************************************************)
Bytes(s) ==
    CASE s = "" -> <<>>
      [] s = "t/" -> <<"t", "/">>
      [] s = "./t" -> <<".", "/", "t">>
      [] s = "/t" -> <<"/", "t">>
      [] s = "../a" -> <<".", ".", "/", "a">>
      [] OTHER -> <<s>>

\* string(bytes)
Cat(bs) == IF bs = <<>> THEN "" ELSE Head(bs) \o Cat(Tail(bs))

\* path.Clean's "out.w--; for out.w > dotdot && out.index(out.w) != '/' { out.w-- }"
backUp(out, w, dotdot) ==
    IF w > dotdot /\ out[w + 1] # "/" THEN backUp(out, w - 1, dotdot) ELSE w

\* The index at which the path element starting at r ends: the next "/" or len(path).
elementEnd(path_, r) ==
    IF r < Len(path_) /\ path_[r + 1] # "/" THEN elementEnd(path_, r + 1) ELSE r

cleanLoop(path_, r, out, dotdot, rooted) ==
    LET n == Len(path_)
    IN IF ~(r < n) THEN out
       ELSE IF path_[r + 1] = "/"
       THEN cleanLoop(path_, r + 1, out, dotdot, rooted)
       ELSE IF path_[r + 1] = "." /\ (r + 1 = n \/ path_[r + 2] = "/")
       THEN cleanLoop(path_, r + 1, out, dotdot, rooted)
       ELSE IF path_[r + 1] = "." /\ path_[r + 2] = "." /\ (r + 2 = n \/ path_[r + 3] = "/")
       THEN IF Len(out) > dotdot
            THEN cleanLoop(path_, r + 2,
                           SubSeq(out, 1, backUp(out, Len(out) - 1, dotdot)), dotdot, rooted)
            ELSE IF ~rooted
            THEN LET o2 == (IF Len(out) > 0 THEN Append(out, "/") ELSE out) \o <<".", ".">>
                 IN cleanLoop(path_, r + 2, o2, Len(o2), rooted)
            ELSE cleanLoop(path_, r + 2, out, dotdot, rooted)
       ELSE LET o2 == IF (rooted /\ Len(out) # 1) \/ (~rooted /\ Len(out) # 0)
                      THEN Append(out, "/") ELSE out
                e == elementEnd(path_, r)
            IN cleanLoop(path_, e, o2 \o SubSeq(path_, r + 1, e), dotdot, rooted)

\* path.Clean
Clean(path_) ==
    IF path_ = <<>> THEN <<".">>
    ELSE LET rooted == path_[1] = "/"
             out == cleanLoop(path_, IF rooted THEN 1 ELSE 0,
                              IF rooted THEN <<"/">> ELSE <<>>,
                              IF rooted THEN 1 ELSE 0, rooted)
         IN IF out = <<>> THEN <<".">> ELSE out

\* The non-empty elements joined by "/".
JoinBytes(elem) ==
    IF elem = <<>> THEN <<>>
    ELSE LET rest == JoinBytes(Tail(elem))
         IN IF Head(elem) = <<>> THEN rest
            ELSE IF rest = <<>> THEN Head(elem)
            ELSE Head(elem) \o <<"/">> \o rest

\* path.Join
pathJoin(elem) ==
    IF \A i \in 1..Len(elem) : elem[i] = <<>> THEN <<>> ELSE Clean(JoinBytes(elem))

(***************************************************************************)
(* Resource.patchExamples.                                                 *)
(***************************************************************************)
\* The 0-based index of the first scalar key of node, from i on, whose Value
\* is key, or -1.
findScalarKeyIndex(h, node, key, i) ==
    IF ~(i < ContentLen(h, node)) THEN -1
    ELSE IF Kind(h, ContentAt(h, node, i)) = ScalarNode /\ Value(h, ContentAt(h, node, i)) = key
    THEN i
    ELSE findScalarKeyIndex(h, node, key, i + 2)

\* &yaml.Node{Kind: yaml.ScalarNode, Value: v}
NewScalar(v) == [Kind |-> ScalarNode, Value |-> v, Tag |-> "", Content |-> NilSlice]

\* patchExample appending the pair also when the key is found.
patchExample_AppendAlso(h, r, exampleMapNode) ==
    IF Kind(h, exampleMapNode) # MappingNode THEN h
    ELSE LET pathPrefix == pathJoin(<<Bytes(r.TemplateDir), Bytes("examples")>>)
             keyToUpdate == "config_path"
             n == findScalarKeyIndex(h, exampleMapNode, "name", 0)
             name == IF n >= 0 THEN Value(h, ContentAt(h, exampleMapNode, n + 1)) ELSE ""
             valueToSet == Cat(pathJoin(<<pathPrefix, Bytes(name) \o <<".", "tmpl">>>>))
             c == findScalarKeyIndex(h, exampleMapNode, keyToUpdate, 0)
             h0 == IF c >= 0
                   THEN [h EXCEPT !.nodes[ContentAt(h, exampleMapNode, c + 1)].Value = valueToSet]
                   ELSE h
             k == Len(h0.nodes) + 1
             h1 == [h0 EXCEPT !.nodes = @ \o <<NewScalar(keyToUpdate), NewScalar(valueToSet)>>]
         IN goAppend(h1, exampleMapNode, <<k, k + 1>>)

\* One iteration of the loop over examplesNode.Content.
patchExample(h, r, exampleMapNode) ==
    IF Kind(h, exampleMapNode) # MappingNode THEN h
    ELSE LET pathPrefix == pathJoin(<<Bytes(r.TemplateDir), Bytes("examples")>>)
             keyToUpdate == "config_path"
             n == findScalarKeyIndex(h, exampleMapNode, "name", 0)
             name == IF n >= 0 THEN Value(h, ContentAt(h, exampleMapNode, n + 1)) ELSE ""
             valueToSet == Cat(pathJoin(<<pathPrefix, Bytes(name) \o <<".", "tmpl">>>>))
             c == findScalarKeyIndex(h, exampleMapNode, keyToUpdate, 0)
         IN IF c >= 0
            THEN [h EXCEPT !.nodes[ContentAt(h, exampleMapNode, c + 1)].Value = valueToSet]
            ELSE LET k == Len(h.nodes) + 1
                     h1 == [h EXCEPT !.nodes = @ \o <<NewScalar(keyToUpdate), NewScalar(valueToSet)>>]
                 IN goAppend(h1, exampleMapNode, <<k, k + 1>>)

patchLoop(h, r, items, i) ==
    IF i > Len(items) THEN h
    ELSE patchLoop(patchExample(h, r, items[i]), r, items, i + 1)

\* patchExamples without the test of the found node's kind.
patchExamples_AnyKind(h, r, rootNode) ==
    LET examplesNode == findNodeByKey(h, rootNode, "examples")
    IN IF examplesNode = Nil THEN h
       ELSE patchLoop(h, r, Content(h, examplesNode), 1)

patchExamples(h, r, rootNode) ==
    LET examplesNode == findNodeByKey(h, rootNode, "examples")
    IN IF examplesNode = Nil \/ Kind(h, examplesNode) # SequenceNode THEN h
       ELSE patchLoop(h, r, Content(h, examplesNode), 1)

(***************************************************************************)
(* Files, overrideYAML, Product.Unmarshal and Resource.Unmarshal.          *)
(* A file is absent (os.ReadFile fails) or holds bytes that yaml.Unmarshal *)
(* parses into a tree or rejects; of rejected bytes, tree is the part read *)
(* before the error.                                                       *)
(***************************************************************************)
NoFile == [readable |-> FALSE, wellFormed |-> FALSE,
           tree |-> [Kind |-> ZeroKind, Value |-> "", Tag |-> "", Content |-> <<>>]]

\* os.ReadFile(path_) where the only files are r.File and the override file
\* r.overridePath under r.OverridesDir.
ReadFile(r, path_) ==
    IF path_ = r.File THEN r.base
    ELSE IF path_ = <<r.OverridesDir>> \o r.overridePath THEN r.overrides
    ELSE NoFile

\* yaml.Unmarshal(data, &node) on node := yaml.Node{} keeping what was read
\* before a syntax error.
yamlUnmarshal_KeepsPrefix(data) == [err |-> ~data.wellFormed, node |-> data.tree]

\* yaml.Unmarshal(data, &node) on node := yaml.Node{}: a syntax error leaves
\* the node as it was.
yamlUnmarshal(data) ==
    IF data.wellFormed
    THEN [err |-> FALSE, node |-> data.tree]
    ELSE [err |-> TRUE,
          node |-> [Kind |-> ZeroKind, Value |-> "", Tag |-> "", Content |-> <<>>]]

Returned(h, o) == [h |-> h, override |-> o, panicked |-> FALSE]

\* overrideYAML failing when the override file cannot be read.
overrideYAML_MissingIsFatal(h, rootNode, r) ==
    LET pieces == r.File
    IN IF Len(pieces) < 2
       THEN [h |-> h, override |-> Nil, panicked |-> TRUE]
       ELSE LET productName == pieces[Len(pieces) - 1]
                baseFile == pieces[Len(pieces)]
                overrideData == ReadFile(r, <<r.OverridesDir, productName, baseFile>>)
            IN IF ~overrideData.readable
               THEN [h |-> h, override |-> Nil, panicked |-> TRUE]
               ELSE LET ld == Load(h, yamlUnmarshal(overrideData).node)
                    IN Returned(mergeYAMLNodes(ld.h, rootNode, ld.id), ld.id)

\* The heap overrideYAML leaves, the override node it parsed (Nil if none),
\* and whether pieces[len(pieces)-2] panicked.
overrideYAML(h, rootNode, r) ==
    LET pieces == r.File
    IN IF Len(pieces) < 2
       THEN [h |-> h, override |-> Nil, panicked |-> TRUE]
       ELSE LET productName == pieces[Len(pieces) - 1]
                baseFile == pieces[Len(pieces)]
                overrideData == ReadFile(r, <<r.OverridesDir, productName, baseFile>>)
            IN IF ~overrideData.readable
               THEN Returned(h, Nil)
               ELSE LET ld == Load(h, yamlUnmarshal(overrideData).node)
                    IN Returned(mergeYAMLNodes(ld.h, rootNode, ld.id), ld.id)

\* The type tag yaml gives an untagged plain scalar.
resolve(v) ==
    IF v \in {"true", "false"} THEN "!!bool"
    ELSE IF v \in {"", "null", "~"} THEN "!!null"
    ELSE "!!str"

EncodeList(h, ids, i) ==
    IF i > Len(ids) THEN <<>> ELSE <<Encode(h, ids[i])>> \o EncodeList(h, ids, i + 1)

\* yaml.Marshal(&rootNode), as the document the schema parser reads back: a
\* document is its content, a collection its kind and children, a scalar its
\* value and type tag, the zero node null.
Encode(h, n) ==
    CASE Kind(h, n) = DocumentNode /\ ContentLen(h, n) > 0 -> Encode(h, ContentAt(h, n, 0))
      [] Kind(h, n) \in {MappingNode, SequenceNode} ->
            [Kind |-> Kind(h, n), Value |-> "", Tag |-> Tag(h, n),
             Content |-> EncodeList(h, Content(h, n), 1)]
      [] Kind(h, n) = ScalarNode ->
            [Kind |-> ScalarNode, Value |-> Value(h, n),
             Tag |-> IF Tag(h, n) = "" THEN resolve(Value(h, n)) ELSE Tag(h, n),
             Content |-> <<>>]
      [] OTHER -> [Kind |-> ScalarNode, Value |-> "null", Tag |-> "!!null", Content |-> <<>>]

NoData == [Kind |-> "none", Value |-> "", Tag |-> "", Content |-> <<>>]

\* What Unmarshal leaves: the error returned ("" for nil), the heap as the
\* base file was parsed, the root node, the override node, the last heap,
\* and the document handed to yamlValidator.Parse.
Failed(e) == [err |-> e, parsed |-> EmptyHeap, root |-> Nil, override |-> Nil,
              heap |-> EmptyHeap, handed |-> NoData]

Panicked(ld, o) == [err |-> "panic", parsed |-> ld.h, root |-> ld.id, override |-> Nil,
                    heap |-> o.h, handed |-> NoData]

\* Resource.Unmarshal going on with an empty node when the file does not parse.
ResourceUnmarshal_ParseErrorLogged(r) ==
    LET yamlData == ReadFile(r, r.File)
    IN IF ~yamlData.readable THEN Failed("cannot open resource file")
       ELSE LET ld == Load(EmptyHeap, yamlUnmarshal(yamlData).node)
                o == overrideYAML(ld.h, ld.id, r)
            IN IF o.panicked THEN Panicked(ld, o)
               ELSE LET patched == patchExamples(o.h, r, ld.id)
                    IN [err |-> "", parsed |-> ld.h, root |-> ld.id, override |-> o.override,
                        heap |-> patched, handed |-> Encode(patched, ld.id)]

ResourceUnmarshal(r) ==
    LET yamlData == ReadFile(r, r.File)
    IN IF ~yamlData.readable THEN Failed("cannot open resource file")
       ELSE IF yamlUnmarshal(yamlData).err THEN Failed("cannot unmarshal file")
       ELSE LET ld == Load(EmptyHeap, yamlUnmarshal(yamlData).node)
                o == overrideYAML(ld.h, ld.id, r)
            IN IF o.panicked THEN Panicked(ld, o)
               ELSE LET patched == patchExamples(o.h, r, ld.id)
                    IN [err |-> "", parsed |-> ld.h, root |-> ld.id, override |-> o.override,
                        heap |-> patched, handed |-> Encode(patched, ld.id)]

ProductUnmarshal(p) ==
    LET yamlData == ReadFile(p, p.File)
    IN IF ~yamlData.readable THEN Failed("cannot open product file")
       ELSE IF yamlUnmarshal(yamlData).err THEN Failed("cannot unmarshal product file")
       ELSE LET ld == Load(EmptyHeap, yamlUnmarshal(yamlData).node)
                o == overrideYAML(ld.h, ld.id, p)
            IN IF o.panicked THEN Panicked(ld, o)
               ELSE [err |-> "", parsed |-> ld.h, root |-> ld.id, override |-> o.override,
                     heap |-> o.h, handed |-> Encode(o.h, ld.id)]

(***************************************************************************)
(* The explored inputs: document trees as yaml.Unmarshal builds them.      *)
(***************************************************************************)
Scalar(v, t) == [Kind |-> ScalarNode, Value |-> v, Tag |-> t, Content |-> <<>>]
Str(v) == Scalar(v, "!!str")
Bool(v) == Scalar(v, "!!bool")
Mapping(c) == [Kind |-> MappingNode, Value |-> "", Tag |-> "!!map", Content |-> c]
Sequence(c) == [Kind |-> SequenceNode, Value |-> "", Tag |-> "!!seq", Content |-> c]
Document(c) == [Kind |-> DocumentNode, Value |-> "", Tag |-> "", Content |-> c]
\* The zero yaml.Node that yaml.Unmarshal leaves untouched on empty input.
ZeroNode == [Kind |-> ZeroKind, Value |-> "", Tag |-> "", Content |-> <<>>]

SeqsUpTo(S, n) == UNION {[1..k -> S] : k \in 0..n}

\* The Content of a mapping with the fields fs (<<key, value tree>> each), in order.
Pairs(fs) == [i \in 1..(2 * Len(fs)) |->
                 IF i % 2 = 1 THEN Str(fs[(i + 1) \div 2][1]) ELSE fs[i \div 2][2]]

DistinctKeys(fs) == \A i, j \in 1..Len(fs) : i # j => fs[i][1] # fs[j][1]

Scalars == {Str("a"), Str("b"), Bool("true")}

\* Sequence elements: mappings of up to MaxPairs fields with distinct keys.
BaseFields == {<<"name", Str("a")>>, <<"name", Sequence(<<>>)>>, <<"id", Str("a")>>,
               <<"x", Str("a")>>}
OverFields == {<<"name", Str("a")>>, <<"name", Sequence(<<>>)>>, <<"id", Str("a")>>,
               <<"x", Str("b")>>, <<"_drop", Bool("true")>>}

ItemsOver(F) == {Mapping(Pairs(fs)) : fs \in {g \in SeqsUpTo(F, MaxPairs) : Len(g) > 0 /\ DistinctKeys(g)}}

\* The number of fields of the mappings of a list of elements.
RECURSIVE SizeOf(_)
SizeOf(ts) == IF ts = <<>> THEN 0 ELSE (Len(Head(ts).Content) \div 2) + SizeOf(Tail(ts))

BaseSeqs == {Sequence(c) : c \in SeqsUpTo(ItemsOver(BaseFields) \cup {Str("a")}, MaxItems)}
OverSeqs == {Sequence(c) : c \in SeqsUpTo(ItemsOver(OverFields) \cup {Str("a")}, MaxItems)}
ScalarSeqs == {Sequence(c) : c \in SeqsUpTo({Str("a"), Str("b")}, MaxItems)}

\* Mappings of up to MaxPairs fields, a key possibly repeated.
MapValues == {Str("a"), Str("b"), Sequence(<<>>), Sequence(<<Str("a")>>),
              Mapping(Pairs(<<<<"x", Str("b")>>>>))}
MapsOver(K) == {Mapping(Pairs(fs)) : fs \in SeqsUpTo(K \X MapValues, MaxPairs)}
Maps == MapsOver({"name", "x"})
OverMaps == MapsOver({"x", "y"})

\* Trees searched by findNodeByKey: the key at several depths.
FindKeys == {"examples", "x"}
FindLeaves == {Str("a"), Str("b")}
FindInner == FindLeaves
             \cup {Mapping(Pairs(<<<<k, v>>>>)) : k \in FindKeys, v \in FindLeaves}
             \cup {Sequence(<<Mapping(Pairs(<<<<k, v>>>>))>>) : k \in FindKeys, v \in FindLeaves}
             \cup {Sequence(<<Mapping(Pairs(<<<<"examples", Str("a")>>>>)),
                              Mapping(Pairs(<<<<"examples", Str("b")>>>>))>>),
                   Sequence(<<Str("a"), Mapping(Pairs(<<<<"x", Str("b")>>>>))>>)}
FindTrees == {Mapping(Pairs(fs)) : fs \in SeqsUpTo(FindKeys \X FindInner, MaxPairs)}

MergeCall(b, o) == [fn |-> "mergeYAMLNodes", root |-> b, override |-> o, key |-> ""]
FindCall(t, k) == [fn |-> "findNodeByKey", root |-> t, override |-> ZeroNode, key |-> k]

EmptyOverrides == {ZeroNode, Document(<<>>), Document(<<Mapping(<<>>)>>),
                   Document(<<Sequence(<<>>)>>),
                   Document(<<Mapping(Pairs(<<<<"x", Sequence(<<>>)>>>>))>>),
                   Document(<<Mapping(Pairs(<<<<"x", Mapping(<<>>)>>>>))>>)}

\* Override elements that match the base element named a, with each kind of
\* _drop value, before or after the name.
DropValues == {Bool("true"), Str("true"), Str("false"), Str("True"), Str("yes"),
               Bool("false"), Sequence(<<>>), Mapping(Pairs(<<<<"x", Str("true")>>>>))}
DropItems == {Mapping(Pairs(fs)) :
                 fs \in {<<<<"name", Str("a")>>, <<"_drop", v>>>> : v \in DropValues}
                        \cup {<<<<"_drop", v>>, <<"name", Str("a")>>>> : v \in DropValues}}
DropSeqs == {Sequence(<<d>>) : d \in DropItems}

\* One tree of each kind, a document with and without a child, the zero node.
KindSamples == {Str("a"), Mapping(Pairs(<<<<"x", Str("a")>>>>)), Sequence(<<Str("a")>>),
                Sequence(<<Mapping(Pairs(<<<<"name", Str("a")>>>>))>>),
                Document(<<>>), Document(<<Mapping(Pairs(<<<<"x", Str("b")>>>>))>>),
                Document(<<Str("b")>>), ZeroNode}

\* Trees given to patchExamples: an examples list of up to MaxItems elements,
\* or no list under the first examples key.
TemplateDirs == {"t", "t/", "", "./t", "/t"}
ExampleFields == {<<"name", Str("a")>>, <<"name", Str("../a")>>, <<"name", Sequence(<<>>)>>,
                  <<"config_path", Str("b")>>, <<"config_path", Sequence(<<Str("b")>>)>>,
                  <<"x", Str("a")>>}
Examples == {Mapping(Pairs(fs)) : fs \in {g \in SeqsUpTo(ExampleFields, MaxPairs) : DistinctKeys(g)}}
            \cup {Str("a"),
                  Mapping(Pairs(<<<<"config_path", Str("b")>>, <<"config_path", Str("c")>>>>))}
ExampleLists == {Sequence(c) : c \in SeqsUpTo(Examples, MaxItems)}
NoExampleList == {Str("a"),
                  Mapping(Pairs(<<<<"x", Mapping(Pairs(<<<<"name", Str("a")>>>>))>>>>)),
                  Mapping(Pairs(<<<<"name", Str("a")>>>>))}
PatchTrees ==
    {Document(<<Mapping(Pairs(<<<<"examples", l>>>>))>>) : l \in ExampleLists \cup NoExampleList}
    \cup {Document(<<Mapping(Pairs(<<<<"x", Str("a")>>>>))>>),
          Document(<<Mapping(Pairs(<<<<"x", Sequence(<<Mapping(Pairs(<<<<"name", Str("a")>>>>))>>)>>>>))>>),
          Document(<<Mapping(Pairs(<<<<"x", Mapping(Pairs(<<<<"examples", Str("a")>>>>))>>,
                                     <<"examples", Sequence(<<Mapping(Pairs(<<<<"name", Str("a")>>>>))>>)>>>>))>>),
          ZeroNode}

\* Files: the base file and the override file, each absent, rejected by the
\* parser, or parsed (an empty file parses into the zero node).
File(t) == [readable |-> TRUE, wellFormed |-> TRUE, tree |-> t]
Malformed(t) == [readable |-> TRUE, wellFormed |-> FALSE, tree |-> t]

ExampleDoc(es) == Document(<<Mapping(Pairs(<<<<"x", Str("a")>>, <<"examples", Sequence(es)>>>>))>>)
BaseDocs == {ExampleDoc(<<Mapping(Pairs(<<<<"name", Str("a")>>>>)),
                          Mapping(Pairs(<<<<"name", Str("b")>>, <<"config_path", Str("b")>>>>))>>),
             ExampleDoc(<<>>),
             Document(<<Mapping(Pairs(<<<<"x", Str("a")>>>>))>>),
             Document(<<Sequence(<<Str("a")>>)>>),
             Document(<<Str("a")>>)}
OverDocs == {ExampleDoc(<<Mapping(Pairs(<<<<"name", Str("a")>>, <<"config_path", Str("a")>>>>))>>),
             ExampleDoc(<<Mapping(Pairs(<<<<"name", Str("a")>>,
                                          <<"config_path", Sequence(<<Str("b")>>)>>>>))>>),
             ExampleDoc(<<Mapping(Pairs(<<<<"name", Str("b")>>, <<"_drop", Bool("true")>>>>))>>),
             Document(<<Mapping(Pairs(<<<<"x", Str("b")>>, <<"y", Str("b")>>>>))>>),
             Document(<<Sequence(<<>>)>>),
             Document(<<Str("b")>>)}
BaseFiles == {NoFile} \cup {File(t) : t \in BaseDocs \cup {ZeroNode}}
                      \cup {Malformed(t) : t \in BaseDocs}
OverrideFiles == {NoFile} \cup {File(t) : t \in OverDocs \cup {ZeroNode}}
                          \cup {Malformed(t) : t \in OverDocs}
FilePaths == {<<"products", "p", "r.yaml">>, <<"p", "r.yaml">>, <<"q", "r.yaml">>, <<"r.yaml">>}

NoEnv == [File |-> <<>>, TemplateDir |-> "", OverridesDir |-> "", overridePath |-> <<>>,
          base |-> NoFile, overrides |-> NoFile]
\* The receiver and the files around it: the override file, if any, is
\* overrides/p/r.yaml.
Env(f, b, o) == [File |-> f, TemplateDir |-> "t", OverridesDir |-> "overrides",
                 overridePath |-> <<"p", "r.yaml">>, base |-> b, overrides |-> o]
PatchEnv(d) == [NoEnv EXCEPT !.TemplateDir = d]

PatchCall(t) == [fn |-> "patchExamples", root |-> t, override |-> ZeroNode, key |-> ""]
OverrideCall(t) == [fn |-> "overrideYAML", root |-> t, override |-> ZeroNode, key |-> ""]

(***************************************************************************)
(* The state machine: a caller parses the trees, then calls one function.  *)
(***************************************************************************)
\* No generator call is in progress: its arguments, the output files and its
\* result are empty.
NoArgs == [none |-> TRUE]
NoGenerator == args = NoArgs /\ files = <<>> /\ ret = NoArgs

StartIn(c, e) ==
    LET lb == Load(EmptyHeap, c.root)
        lo == Load(lb.h, c.override)
    IN /\ heap = lo.h
       /\ heap0 = lo.h
       /\ root = lb.id
       /\ override = lo.id
       /\ call = [fn |-> c.fn, key |-> c.key]
       /\ found = Nil
       /\ pc = "start"
       /\ env = e
       /\ err = ""
       /\ handed = NoData
       /\ NoGenerator

Start(c) == StartIn(c, NoEnv)

\* mergeYAMLNodes called with a nil root, a nil override, or both.
StartAbsent(t, rootNil, overrideNil) ==
    LET lb == Load(EmptyHeap, t)
    IN /\ heap = lb.h
       /\ heap0 = lb.h
       /\ root = IF rootNil THEN Nil ELSE lb.id
       /\ override = IF overrideNil THEN Nil ELSE lb.id
       /\ call = [fn |-> "mergeYAMLNodes", key |-> ""]
       /\ found = Nil
       /\ pc = "start"
       /\ env = NoEnv
       /\ err = ""
       /\ handed = NoData
       /\ NoGenerator

\* Unmarshal called on a receiver whose files are e's: nothing is parsed yet.
StartUnmarshal(fn, e) ==
    /\ heap = EmptyHeap
    /\ heap0 = EmptyHeap
    /\ root = Nil
    /\ override = Nil
    /\ call = [fn |-> fn, key |-> ""]
    /\ found = Nil
    /\ pc = "start"
    /\ env = e
    /\ err = ""
    /\ handed = NoData
    /\ NoGenerator

Init ==
    \/ \E b \in BaseSeqs, o \in OverSeqs :
          /\ SizeOf(b.Content) + SizeOf(o.Content) <= MaxSize
          /\ Start(MergeCall(b, o))
    \/ \E b \in BaseSeqs, o \in ScalarSeqs : Start(MergeCall(b, o))
    \/ \E b \in BaseSeqs, o \in DropSeqs : Start(MergeCall(b, o))
    \/ \E b \in Maps, o \in OverMaps : Start(MergeCall(b, o))
    \/ \E b \in Scalars \cup Maps \cup BaseSeqs, o \in Scalars : Start(MergeCall(b, o))
    \/ \E b \in Maps \cup BaseSeqs, o \in EmptyOverrides : Start(MergeCall(Document(<<b>>), o))
    \/ \E b \in KindSamples, o \in KindSamples : Start(MergeCall(b, o))
    \/ \E t \in KindSamples, rootNil, overrideNil \in BOOLEAN :
          (rootNil \/ overrideNil) /\ StartAbsent(t, rootNil, overrideNil)
    \/ \E t \in FindTrees, k \in FindKeys : Start(FindCall(t, k))
    \/ \E t \in FindTrees, k \in FindKeys : Start(FindCall(Document(<<t>>), k))
    \/ \E t \in PatchTrees, d \in TemplateDirs : StartIn(PatchCall(t), PatchEnv(d))
    \/ \E t \in BaseDocs \cup {ZeroNode}, f \in FilePaths, o \in OverrideFiles :
          StartIn(OverrideCall(t), Env(f, NoFile, o))
    \/ \E fn \in {"Resource.Unmarshal", "Product.Unmarshal"},
          f \in FilePaths, b \in BaseFiles, o \in OverrideFiles :
          StartUnmarshal(fn, Env(f, b, o))

CallMergeYAMLNodes ==
    /\ pc = "start"
    /\ call.fn = "mergeYAMLNodes"
    /\ heap' = mergeYAMLNodes(heap, root, override)
    /\ pc' = "done"
    /\ UNCHANGED <<heap0, root, override, call, found, env, err, handed, args, files, ret>>

CallFindNodeByKey ==
    /\ pc = "start"
    /\ call.fn = "findNodeByKey"
    /\ found' = findNodeByKey(heap, root, call.key)
    /\ pc' = "done"
    /\ UNCHANGED <<heap, heap0, root, override, call, env, err, handed, args, files, ret>>

CallPatchExamples ==
    /\ pc = "start"
    /\ call.fn = "patchExamples"
    /\ heap' = patchExamples(heap, env, root)
    /\ pc' = "done"
    /\ UNCHANGED <<heap0, root, override, call, found, env, err, handed, args, files, ret>>

\* ApplyOverrides: overrideYAML on the parsed base tree.
CallOverrideYAML ==
    /\ pc = "start"
    /\ call.fn = "overrideYAML"
    /\ LET o == overrideYAML(heap, root, env)
       IN /\ heap' = o.h
          /\ override' = o.override
          /\ err' = IF o.panicked THEN "panic" ELSE ""
    /\ pc' = "done"
    /\ UNCHANGED <<heap0, root, call, found, env, handed, args, files, ret>>

Returns(res) ==
    /\ heap0' = res.parsed
    /\ heap' = res.heap
    /\ root' = res.root
    /\ override' = res.override
    /\ err' = res.err
    /\ handed' = res.handed
    /\ pc' = "done"
    /\ UNCHANGED <<call, found, env, args, files, ret>>

CallResourceUnmarshal ==
    /\ pc = "start"
    /\ call.fn = "Resource.Unmarshal"
    /\ Returns(ResourceUnmarshal(env))

CallProductUnmarshal ==
    /\ pc = "start"
    /\ call.fn = "Product.Unmarshal"
    /\ Returns(ProductUnmarshal(env))

Next ==
    \/ CallMergeYAMLNodes
    \/ CallFindNodeByKey
    \/ CallPatchExamples
    \/ CallOverrideYAML
    \/ CallResourceUnmarshal
    \/ CallProductUnmarshal

Spec == Init /\ [][Next]_vars

\* The trees before and after the call.
Base0 == Tree(heap0, root)
Base1 == Tree(heap, root)
Over0 == Tree(heap0, override)
Over1 == Tree(heap, override)
Merged == pc = "done" /\ call.fn = "mergeYAMLNodes" /\ root # Nil /\ override # Nil

TypeOK == pc \in {"start", "done"}

(***************************************************************************)
(* Vocabulary of the properties, over document trees as values.            *)
(***************************************************************************)
NPairs(t) == Len(t.Content) \div 2
KeyAt(t, p) == t.Content[2 * p - 1]
ValAt(t, p) == t.Content[2 * p]
HasKey(t, k) == \E p \in 1..NPairs(t) : KeyAt(t, p).Value = k
FirstPair(t, k) == CHOOSE p \in 1..NPairs(t) :
                       KeyAt(t, p).Value = k /\ \A q \in 1..(p - 1) : KeyAt(t, q).Value # k
Get(t, k) == ValAt(t, FirstPair(t, k))
UniqueKeys(t) == \A p, q \in 1..NPairs(t) : p # q => KeyAt(t, p).Value # KeyAt(t, q).Value

\* A field that can identify a sequence element: a scalar name or id with a scalar value.
Identifies(t, p) ==
    /\ KeyAt(t, p).Kind = ScalarNode
    /\ ValAt(t, p).Kind = ScalarNode
    /\ KeyAt(t, p).Value \in {"name", "id"}

\* Identity by field order: the first identifying field of the mapping, <<>> if none.
FieldOrderIdentity(t) ==
    IF t.Kind = MappingNode /\ \E p \in 1..NPairs(t) : Identifies(t, p)
    THEN LET p == CHOOSE q \in 1..NPairs(t) :
                      Identifies(t, q) /\ \A r \in 1..(q - 1) : ~Identifies(t, r)
         IN <<KeyAt(t, p).Value, ValAt(t, p).Value>>
    ELSE <<>>

\* Identity by priority: a scalar name wherever it stands, else a scalar id.
PriorityIdentity(t) ==
    LET Named(k) == {p \in 1..NPairs(t) : Identifies(t, p) /\ KeyAt(t, p).Value = k}
        First(S) == CHOOSE p \in S : \A q \in S : p <= q
    IN IF t.Kind # MappingNode THEN <<>>
       ELSE IF Named("name") # {} THEN <<"name", ValAt(t, First(Named("name"))).Value>>
       ELSE IF Named("id") # {} THEN <<"id", ValAt(t, First(Named("id"))).Value>>
       ELSE <<>>

DropMarked(t) ==
    \E p \in 1..NPairs(t) :
        /\ KeyAt(t, p).Kind = ScalarNode /\ KeyAt(t, p).Value = "_drop"
        /\ ValAt(t, p).Kind = ScalarNode /\ ValAt(t, p).Value = "true"

ScalarFields(t) == \A p \in 1..NPairs(t) : ValAt(t, p).Kind = ScalarNode

\* The fields of o whose key a lacks, from field p on, as mapping Content.
RECURSIVE NewFields(_, _, _)
NewFields(a, o, p) ==
    IF p > NPairs(o) THEN <<>>
    ELSE (IF HasKey(a, KeyAt(o, p).Value) THEN <<>> ELSE <<KeyAt(o, p), ValAt(o, p)>>)
         \o NewFields(a, o, p + 1)

\* The key-wise merge of mapping o, of scalar fields, into mapping a: a's
\* fields in place, each taking the value and tag o gives its key; then o's
\* new fields.
KeyWise(a, o) ==
    [a EXCEPT !.Content =
        [q \in 1..Len(a.Content) |->
            IF q % 2 = 0 /\ HasKey(o, a.Content[q - 1].Value)
            THEN [a.Content[q] EXCEPT !.Value = Get(o, a.Content[q - 1].Value).Value,
                                      !.Tag = Get(o, a.Content[q - 1].Value).Tag]
            ELSE a.Content[q]]
        \o NewFields(a, o, 1)]

\* The keyed sequence merge: mergeYAMLNodes on two sequences, the override
\* holding a mapping.  Items is override.Content; Before(i) and After(i) are
\* the heaps around the iteration for Items[i], the last After being the
\* heap the call left.
KeyedMerge ==
    /\ call.fn = "mergeYAMLNodes"
    /\ Kind(heap0, root) = SequenceNode
    /\ Kind(heap0, override) = SequenceNode
    /\ \E i \in 1..ContentLen(heap0, override) :
           Kind(heap0, ContentAt(heap0, override, i - 1)) = MappingNode
Items == Content(heap0, override)
Before(i) == mergeSequencePrefix(heap0, root, Items, i - 1)
After(i) == IF i = Len(Items) THEN heap ELSE mergeSequencePrefix(heap0, root, Items, i)

\* The positions in the base sequence, in heap h, of the mappings whose
\* identity by field order is ident.
Matches(h, ident) ==
    {k \in 1..ContentLen(h, root) :
        FieldOrderIdentity(Tree(h, ContentAt(h, root, k - 1))) = ident}
Least(S) == CHOOSE k \in S : \A m \in S : k <= m
Without(ids, k) == [j \in 1..(Len(ids) - 1) |-> IF j < k THEN ids[j] ELSE ids[j + 1]]

(***************************************************************************)
(* C1: when override is a Scalar and base a Mapping or a Sequence, base is *)
(* a Scalar after the merge: scalar kind, no children, override's value    *)
(* and type tag.                                                           *)
(***************************************************************************)
C1_ShapeChangeYieldsScalar ==
    (Merged /\ Over0.Kind = ScalarNode /\ Base0.Kind \in {MappingNode, SequenceNode})
    => /\ Base1.Kind = ScalarNode
       /\ Base1.Content = <<>>
       /\ Base1.Value = Over0.Value
       /\ Base1.Tag = Over0.Tag

(***************************************************************************)
(* C2: for every base Scalar and every override Scalar, after the merge    *)
(* base's value and type tag equal override's, whatever they were before.  *)
(***************************************************************************)
C2_ScalarOverrideWins ==
    (Merged /\ Base0.Kind = ScalarNode /\ Over0.Kind = ScalarNode)
    => /\ Base1.Value = Over0.Value
       /\ Base1.Tag = Over0.Tag
       /\ Base1.Kind = ScalarNode

C2_Witness ==
    /\ Merged
    /\ Base0.Kind = ScalarNode /\ Over0.Kind = ScalarNode
    /\ Base0.Value # Over0.Value /\ Base0.Tag # Over0.Tag
    /\ Base1.Value = Over0.Value /\ Base1.Tag = Over0.Tag

C4_MatchedMergedInPlace ==
    (Merged /\ KeyedMerge) =>
        \A i \in 1..Len(Items) :
            LET b == Before(i)
                a == After(i)
                ids == Content(b, root)
                item == Tree(b, Items[i])
                ident == FieldOrderIdentity(item)
                M == Matches(b, ident)
            IN (/\ ident # <<>> /\ ~DropMarked(item) /\ M # {}
                /\ ScalarFields(item) /\ UniqueKeys(item) /\ UniqueKeys(Tree(b, ids[Least(M)])))
               => /\ Content(a, root) = ids
                  /\ \A k \in 1..Len(ids) :
                        Tree(a, ids[k]) = IF k = Least(M)
                                          THEN KeyWise(Tree(b, ids[k]), item)
                                          ELSE Tree(b, ids[k])

\* A matched element whose field x takes the override's value.
C4_WitnessOverwritten ==
    /\ Merged /\ KeyedMerge
    /\ Len(Items) = 1 /\ Len(Base0.Content) = 1
    /\ HasKey(Base0.Content[1], "x") /\ HasKey(Over0.Content[1], "x")
    /\ Get(Base0.Content[1], "x").Value = "a"
    /\ Len(Base1.Content) = 1
    /\ Get(Base1.Content[1], "x").Value = "b"

C4_Witness ==
    /\ Merged /\ KeyedMerge
    /\ Len(Items) = 1 /\ Len(Base0.Content) = 2
    /\ ~DropMarked(Over0.Content[1])
    /\ Matches(heap0, FieldOrderIdentity(Over0.Content[1])) = {2}
    /\ Len(Base1.Content) = 2
    /\ Base1.Content[1] = Base0.Content[1]
    /\ Base1.Content[2] # Base0.Content[2]
    /\ ~HasKey(Base0.Content[2], "x") /\ HasKey(Base1.Content[2], "x")
    /\ Get(Base1.Content[2], "x").Value = "b"

(***************************************************************************)
(* C5: in a keyed sequence merge, an override mapping element that carries *)
(* the drop marker and matches a base element by identity removes exactly  *)
(* the first such base element: nothing of the override element is merged  *)
(* into base, the base sequence shrinks by one, and the remaining elements *)
(* keep their content and relative order.                                  *)
(***************************************************************************)
C5_DropRemovesMatched ==
    (Merged /\ KeyedMerge) =>
        \A i \in 1..Len(Items) :
            LET b == Before(i)
                a == After(i)
                ids == Content(b, root)
                item == Tree(b, Items[i])
                ident == FieldOrderIdentity(item)
                M == Matches(b, ident)
            IN (ident # <<>> /\ DropMarked(item) /\ M # {} /\ UniqueKeys(item))
               => /\ Content(a, root) = Without(ids, Least(M))
                  /\ ContentLen(a, root) = Len(ids) - 1
                  /\ \A k \in 1..Len(ids) : Tree(a, ids[k]) = Tree(b, ids[k])

C5_Witness ==
    /\ Merged /\ KeyedMerge
    /\ Len(Items) = 1 /\ Len(Base0.Content) = 2
    /\ DropMarked(Over0.Content[1])
    /\ 1 \in Matches(heap0, FieldOrderIdentity(Over0.Content[1]))
    /\ Base1.Content = <<Base0.Content[2]>>

(***************************************************************************)
(* C6: in a keyed sequence merge, an override mapping element with no      *)
(* identifying field, or whose identity no element of the base sequence    *)
(* shares, is appended to the base sequence as a new element, the elements *)
(* already there staying as they are.  After the merge the base sequence   *)
(* is elements retained from base, in their original relative order,       *)
(* followed by elements of override, in override's order.                  *)
(***************************************************************************)
C6_UnmatchedAppended ==
    (Merged /\ KeyedMerge) =>
        /\ \A i \in 1..Len(Items) :
              LET b == Before(i)
                  a == After(i)
                  ids == Content(b, root)
                  ident == FieldOrderIdentity(Tree(b, Items[i]))
              IN (Kind(b, Items[i]) = MappingNode /\ (ident = <<>> \/ Matches(b, ident) = {}))
                 => /\ Content(a, root) = Append(ids, Items[i])
                    /\ Tree(a, Items[i]) = Tree(b, Items[i])
                    /\ \A k \in 1..Len(ids) : Tree(a, ids[k]) = Tree(b, ids[k])
        /\ LET ids0 == Content(heap0, root)
               ids1 == Content(heap, root)
           IN \E n \in 0..Len(ids1) :
                 /\ \A p \in 1..n : IndexOf(ids0, ids1[p]) # 0
                 /\ \A p, q \in 1..n : p < q => IndexOf(ids0, ids1[p]) < IndexOf(ids0, ids1[q])
                 /\ \A p \in (n + 1)..Len(ids1) : IndexOf(Items, ids1[p]) # 0
                 /\ \A p, q \in (n + 1)..Len(ids1) :
                       p < q => IndexOf(Items, ids1[p]) < IndexOf(Items, ids1[q])

C6_Witness ==
    /\ Merged /\ KeyedMerge
    /\ Len(Items) = 2 /\ Len(Base0.Content) = 1
    /\ FieldOrderIdentity(Over0.Content[1]) = <<>>
    /\ FieldOrderIdentity(Over0.Content[2]) = <<"id", "a">>
    /\ FieldOrderIdentity(Base0.Content[1]) = <<"name", "a">>
    /\ Content(heap, root) = Content(heap0, root) \o Items
    /\ Base1.Content = Base0.Content \o Over0.Content

(***************************************************************************)
(* C7: when base and override are Sequences and the override sequence is   *)
(* empty or holds no mapping, base's elements after the merge are exactly  *)
(* override's, in the same order; every element base held is discarded.    *)
(***************************************************************************)
C7_SequenceReplaced ==
    (/\ Merged
     /\ Base0.Kind = SequenceNode /\ Over0.Kind = SequenceNode
     /\ \A i \in 1..Len(Over0.Content) : Over0.Content[i].Kind # MappingNode)
    => /\ Base1.Content = Over0.Content
       /\ Content(heap, root) = Content(heap0, override)
       /\ \A k \in 1..ContentLen(heap0, root) :
              IndexOf(Content(heap, root), ContentAt(heap0, root, k - 1)) = 0

C7_Witness ==
    /\ Merged
    /\ Base0.Kind = SequenceNode /\ Over0.Kind = SequenceNode
    /\ Len(Base0.Content) = 2
    /\ Over0.Content = <<Str("b"), Str("a")>>
    /\ Base1.Content = <<Str("b"), Str("a")>>

(***************************************************************************)
(* C8: merging an override Mapping into a base Mapping, keys unique in     *)
(* each: a key of base that override lacks keeps its value; a key of both  *)
(* has the value merge(base[k] before, override[k]); a key of override     *)
(* only has the value override[k].                                         *)
(***************************************************************************)
ValueNode(h, n, k) == ContentAt(h, n, 2 * FirstPair(Tree(h, n), k) - 1)

C8_MappingMergeKeyWise ==
    (/\ Merged
     /\ Base0.Kind = MappingNode /\ Over0.Kind = MappingNode
     /\ UniqueKeys(Base0) /\ UniqueKeys(Over0))
    => \A k \in {"name", "x", "y"} :
          /\ (HasKey(Base0, k) /\ ~HasKey(Over0, k))
                => (HasKey(Base1, k) /\ Get(Base1, k) = Get(Base0, k))
          /\ (HasKey(Base0, k) /\ HasKey(Over0, k))
                => /\ HasKey(Base1, k)
                   /\ Get(Base1, k) =
                        Tree(mergeYAMLNodes(heap0, ValueNode(heap0, root, k),
                                            ValueNode(heap0, override, k)),
                             ValueNode(heap0, root, k))
          /\ (~HasKey(Base0, k) /\ HasKey(Over0, k))
                => (HasKey(Base1, k) /\ Get(Base1, k) = Get(Over0, k))
          /\ (~HasKey(Base0, k) /\ ~HasKey(Over0, k)) => ~HasKey(Base1, k)

C8_Witness ==
    /\ Merged
    /\ Base0 = Mapping(Pairs(<<<<"name", Str("a")>>, <<"x", Sequence(<<Str("a")>>)>>>>))
    /\ Over0 = Mapping(Pairs(<<<<"y", Str("b")>>, <<"x", Str("b")>>>>))
    /\ NPairs(Base1) = 3
    /\ Get(Base1, "name") = Str("a")
    /\ Get(Base1, "x").Value = "b"
    /\ Get(Base1, "y") = Str("b")

(***************************************************************************)
(* C9 as claimed: merge(base, emptyOverride) leaves base unchanged, the    *)
(* override being a document with no content, or having as root an empty   *)
(* mapping, or an empty sequence as root or under a field base has.        *)
(***************************************************************************)
RootOf(t) == IF t.Kind = DocumentNode /\ Len(t.Content) > 0 THEN t.Content[1] ELSE t
NoContent(t) == t.Kind \in {ZeroKind, DocumentNode} /\ t.Content = <<>>
EmptyMappingRoot(t) == RootOf(t).Kind = MappingNode /\ RootOf(t).Content = <<>>
EmptySequenceRoot(t) == RootOf(t).Kind = SequenceNode /\ RootOf(t).Content = <<>>
EmptySequenceFields(t) ==
    /\ RootOf(t).Kind = MappingNode /\ NPairs(RootOf(t)) > 0
    /\ \A p \in 1..NPairs(RootOf(t)) :
          ValAt(RootOf(t), p).Kind = SequenceNode /\ ValAt(RootOf(t), p).Content = <<>>

C9_EmptyOverrideChangesNothing ==
    (/\ Merged
     /\ \/ NoContent(Over0) \/ EmptyMappingRoot(Over0)
        \/ EmptySequenceRoot(Over0) \/ EmptySequenceFields(Over0))
    => Base1 = Base0

(***************************************************************************)
(* C9 as amended: merge(base, emptyOverride) leaves base unchanged when    *)
(* the override document has no content or its root is an empty mapping.   *)
(* An empty override sequence empties the base sequence it is merged with  *)
(* (the root, or the field of that key) and changes nothing else, so base  *)
(* is unchanged only where that sequence was empty already.                *)
(***************************************************************************)
C9_EmptyOverride ==
    Merged =>
      /\ (NoContent(Over0) \/ EmptyMappingRoot(Over0)) => (Base1 = Base0 /\ heap = heap0)
      /\ (EmptySequenceRoot(Over0) /\ Over0.Kind = Base0.Kind
          /\ RootOf(Base0).Kind = SequenceNode)
            => /\ RootOf(Base1) = [RootOf(Base0) EXCEPT !.Content = <<>>]
               /\ Base1.Kind = Base0.Kind
      /\ (EmptySequenceFields(Over0) /\ Over0.Kind = Base0.Kind
          /\ RootOf(Base0).Kind = MappingNode /\ UniqueKeys(RootOf(Base0))
          /\ UniqueKeys(RootOf(Over0)))
            => /\ NPairs(RootOf(Base1)) >= NPairs(RootOf(Base0))
               /\ \A p \in 1..NPairs(RootOf(Base0)) :
                     /\ KeyAt(RootOf(Base1), p) = KeyAt(RootOf(Base0), p)
                     /\ ValAt(RootOf(Base1), p) =
                          IF HasKey(RootOf(Over0), KeyAt(RootOf(Base0), p).Value)
                             /\ ValAt(RootOf(Base0), p).Kind = SequenceNode
                          THEN [ValAt(RootOf(Base0), p) EXCEPT !.Content = <<>>]
                          ELSE ValAt(RootOf(Base0), p)

C9_Witness ==
    /\ Merged
    /\ Over0 = Document(<<Mapping(<<>>)>>)
    /\ Base0.Kind = DocumentNode
    /\ RootOf(Base0).Kind = MappingNode /\ NPairs(RootOf(Base0)) = 2
    /\ Base1 = Base0

C9_WitnessEmptied ==
    /\ Merged
    /\ Over0 = Document(<<Sequence(<<>>)>>)
    /\ RootOf(Base0).Kind = SequenceNode /\ Len(RootOf(Base0).Content) = 2
    /\ RootOf(Base1).Content = <<>>

(***************************************************************************)
(* C10 as claimed: when a mapping contains the searched key directly,      *)
(* findNodeByKey returns the value paired with that direct key, never an   *)
(* occurrence nested in the value of another pair of the mapping.          *)
(***************************************************************************)
Searched == pc = "done" /\ call.fn = "findNodeByKey"
Top == IF Kind(heap, root) = DocumentNode /\ ContentLen(heap, root) > 0
       THEN ContentAt(heap, root, 0) ELSE root

RECURSIVE ContainsKey(_, _)
ContainsKey(t, k) ==
    IF t.Kind = MappingNode
    THEN \E p \in 1..NPairs(t) :
            \/ KeyAt(t, p).Kind = ScalarNode /\ KeyAt(t, p).Value = k
            \/ ContainsKey(ValAt(t, p), k)
    ELSE \E i \in 1..Len(t.Content) : ContainsKey(t.Content[i], k)

RECURSIVE Reach(_, _)
Reach(h, n) == {n} \cup UNION {Reach(h, Content(h, n)[i]) : i \in 1..ContentLen(h, n)}

C10_DirectKeyWins ==
    (Searched /\ Kind(heap, Top) = MappingNode /\ HasKey(Tree(heap, Top), call.key))
    => found = ValueNode(heap, Top, call.key)

(***************************************************************************)
(* C10 as amended: when a mapping contains the searched key directly,      *)
(* findNodeByKey returns the value paired with the first such key unless   *)
(* the value of an earlier pair of the mapping contains the key; in that   *)
(* case it returns the occurrence nested in the first such earlier value:  *)
(* each pair's value is searched before the next pair's key is looked at.  *)
(***************************************************************************)
C10_DirectKeyUnlessEarlierNested ==
    (Searched /\ Kind(heap, Top) = MappingNode /\ HasKey(Tree(heap, Top), call.key))
    => LET t == Tree(heap, Top)
           p == FirstPair(t, call.key)
           E == {q \in 1..(p - 1) : ContainsKey(ValAt(t, q), call.key)}
       IN IF E = {}
          THEN found = ValueNode(heap, Top, call.key)
          ELSE /\ found \in Reach(heap, ContentAt(heap, Top, 2 * Least(E) - 1))
               /\ found # ContentAt(heap, Top, 2 * Least(E) - 1)
               /\ found # ValueNode(heap, Top, call.key)

C10_Witness ==
    /\ Searched
    /\ call.key = "examples"
    /\ Tree(heap, Top) = Mapping(Pairs(<<<<"x", Mapping(Pairs(<<<<"examples", Str("a")>>>>))>>,
                                          <<"examples", Str("b")>>>>))
    /\ found # Nil
    /\ Tree(heap, found) = Str("a")

(***************************************************************************)
(* C11: findNodeByKey(root, key) returns the value node of the first       *)
(* mapping pair whose scalar key equals key in depth-first pre-order       *)
(* document order (children of documents and sequences left to right; in a *)
(* mapping each pair's key before that pair's value subtree, and that      *)
(* subtree before the next pair), and returns absent exactly when no       *)
(* scalar mapping key in the tree equals key; a later occurrence is never  *)
(* returned.                                                               *)
(***************************************************************************)
RECURSIVE Occurrences(_, _, _), OccurrencesOfPairs(_, _, _, _), OccurrencesOfChildren(_, _, _, _)
\* The value nodes of all pairs whose scalar key equals key, in document order.
Occurrences(h, n, key) ==
    IF Kind(h, n) = MappingNode THEN OccurrencesOfPairs(h, Content(h, n), 1, key)
    ELSE IF Kind(h, n) \in {DocumentNode, SequenceNode}
    THEN OccurrencesOfChildren(h, Content(h, n), 1, key)
    ELSE <<>>

OccurrencesOfPairs(h, ids, p, key) ==
    IF p + 1 > Len(ids) THEN <<>>
    ELSE (IF Kind(h, ids[p]) = ScalarNode /\ Value(h, ids[p]) = key THEN <<ids[p + 1]>> ELSE <<>>)
         \o Occurrences(h, ids[p + 1], key)
         \o OccurrencesOfPairs(h, ids, p + 2, key)

OccurrencesOfChildren(h, ids, i, key) ==
    IF i > Len(ids) THEN <<>>
    ELSE Occurrences(h, ids[i], key) \o OccurrencesOfChildren(h, ids, i + 1, key)

C11_FirstInDocumentOrder ==
    Searched =>
        LET occ == Occurrences(heap, root, call.key)
        IN /\ (found = Nil) <=> (occ = <<>>)
           /\ (found = Nil) <=> ~ContainsKey(Tree(heap, root), call.key)
           /\ occ # <<>> => (found = occ[1] /\ \A k \in 2..Len(occ) : found # occ[k])

C11_Witness ==
    /\ Searched
    /\ call.key = "examples"
    /\ Tree(heap, root) =
         Mapping(Pairs(<<<<"x", Sequence(<<Mapping(Pairs(<<<<"examples", Str("a")>>>>)),
                                            Mapping(Pairs(<<<<"examples", Str("b")>>>>))>>)>>,
                         <<"examples", Str("b")>>>>))
    /\ Len(Occurrences(heap, root, call.key)) = 3
    /\ found # Nil
    /\ Tree(heap, found) = Str("a")

(***************************************************************************)
(* C12: after patchExamples every element of the sequence located under    *)
(* the examples key has a config_path field whose value is exactly the     *)
(* scalar string <templateDirectory>/examples/<name>.tmpl, <name> being    *)
(* the value of the element's own name field (empty when it has none),     *)
(* whether or not the element had a config_path field before and whatever  *)
(* that field's value was.                                                 *)
(***************************************************************************)
Patched == pc = "done" /\ call.fn = "patchExamples"

\* The node located under the examples key, Nil if none.
Located(h) ==
    LET occ == Occurrences(h, root, "examples") IN IF occ = <<>> THEN Nil ELSE occ[1]

NameOf(e) == IF HasKey(e, "name") THEN Get(e, "name").Value ELSE ""

C12_EveryExampleHasConfigPath ==
    (Patched /\ Located(heap0) # Nil /\ Kind(heap0, Located(heap0)) = SequenceNode) =>
        \A i \in 1..ContentLen(heap, Located(heap0)) :
            LET e == Tree(heap, ContentAt(heap, Located(heap0), i - 1))
            IN /\ HasKey(e, "config_path")
               /\ Get(e, "config_path").Kind = ScalarNode
               /\ Get(e, "config_path").Content = <<>>
               /\ Get(e, "config_path").Value =
                     env.TemplateDir \o "/examples/" \o NameOf(e) \o ".tmpl"

(***************************************************************************)
(* C13: when the override file derived for a source file does not exist or *)
(* cannot be read, overrideYAML leaves the base tree entirely unchanged    *)
(* and reports no error: Unmarshal goes on with the unpatched base, which  *)
(* is what the schema parser is handed (after the example patch, for a     *)
(* resource).                                                              *)
(***************************************************************************)
Overridden == pc = "done" /\ call.fn = "overrideYAML"
Unmarshalled(fn) == pc = "done" /\ call.fn = fn
BaseParses == env.base.readable /\ env.base.wellFormed

\* The override file of the source file: the last two segments of its path
\* under the overrides directory.
Derived == Len(env.File) >= 2
OverrideFile ==
    ReadFile(env, <<env.OverridesDir, env.File[Len(env.File) - 1], env.File[Len(env.File)]>>)

\* No node and no child list that existed before the call has changed.
HeapKept ==
    /\ \A n \in 1..Len(heap0.nodes) : heap.nodes[n] = heap0.nodes[n]
    /\ \A a \in 1..Len(heap0.arrays) : heap.arrays[a] = heap0.arrays[a]

C13_MissingOverrideIsNoOp ==
    (Derived /\ ~OverrideFile.readable) =>
        /\ Overridden =>
              /\ heap = heap0
              /\ Tree(heap, root) = Tree(heap0, root)
              /\ override = Nil
              /\ err = ""
        /\ (Unmarshalled("Resource.Unmarshal") /\ BaseParses) =>
              /\ err = ""
              /\ override = Nil
              /\ heap = patchExamples(heap0, env, root)
              /\ handed = Encode(patchExamples(heap0, env, root), root)
        /\ (Unmarshalled("Product.Unmarshal") /\ BaseParses) =>
              /\ err = ""
              /\ heap = heap0
              /\ handed = Encode(heap0, root)

C13_Witness ==
    /\ Unmarshalled("Resource.Unmarshal")
    /\ env.File = <<"q", "r.yaml">>
    /\ env.overrides.readable /\ env.overrides.wellFormed
    /\ ~OverrideFile.readable
    /\ BaseParses
    /\ Tree(heap0, root) \in BaseDocs
    /\ err = ""
    /\ override = Nil
    /\ handed = Encode(heap, root)
    /\ handed # NoData

(***************************************************************************)
(* C14: when the override file exists but fails to parse as YAML, the base *)
(* tree after overrideYAML is identical to the base tree before it, no     *)
(* error is returned, and Resource.Unmarshal continues to the example      *)
(* patch and the schema parse, as if no override existed.                  *)
(***************************************************************************)
C14_MalformedOverrideIsNoOp ==
    (Derived /\ OverrideFile.readable /\ ~OverrideFile.wellFormed) =>
        /\ Overridden =>
              /\ Tree(heap, root) = Tree(heap0, root)
              /\ HeapKept
              /\ err = ""
        /\ (Unmarshalled("Resource.Unmarshal") /\ BaseParses) =>
              /\ err = ""
              /\ Tree(overrideYAML(heap0, root, env).h, root) = Tree(heap0, root)
              /\ Tree(heap, root) = Tree(patchExamples(heap0, env, root), root)
              /\ handed = Encode(patchExamples(heap0, env, root), root)
              /\ handed # NoData

C14_Witness ==
    /\ Unmarshalled("Resource.Unmarshal")
    /\ Derived
    /\ OverrideFile.readable /\ ~OverrideFile.wellFormed
    /\ OverrideFile.tree.Kind = DocumentNode
    /\ HasKey(RootOf(OverrideFile.tree), "examples")
    /\ BaseParses
    /\ HasKey(RootOf(Tree(heap0, root)), "examples")
    /\ Len(Get(RootOf(Tree(heap0, root)), "examples").Content) = 2
    /\ err = ""
    /\ Tree(heap, root) # Tree(heap0, root)
    /\ handed = Encode(heap, root)
    /\ Len(Get(handed, "examples").Content) = 2

(***************************************************************************)
(* C15: when the base document cannot be read or fails to parse, Unmarshal *)
(* (of a resource and of a product) returns an error and none of the later *)
(* steps runs: no override is loaded or merged, no example path is         *)
(* patched, nothing is handed to the schema parser.                        *)
(***************************************************************************)
C15_MalformedBaseAborts ==
    ((Unmarshalled("Resource.Unmarshal") \/ Unmarshalled("Product.Unmarshal")) /\ ~BaseParses)
    => /\ err \notin {"", "panic"}
       /\ heap = EmptyHeap
       /\ root = Nil
       /\ override = Nil
       /\ handed = NoData

C15_Witness ==
    /\ Unmarshalled("Resource.Unmarshal")
    /\ env.base.readable /\ ~env.base.wellFormed
    /\ HasKey(RootOf(env.base.tree), "examples")
    /\ Derived /\ OverrideFile.readable /\ OverrideFile.wellFormed
    /\ err = "cannot unmarshal file"
    /\ heap = EmptyHeap
    /\ handed = NoData

(***************************************************************************)
(* C16: the override tree is a read-only source of the merge: for every    *)
(* base and override, mergeYAMLNodes changes the kind, value, tag or child *)
(* list of no node of the override tree as it was just before the call,    *)
(* also when an override mapping repeats a key that base lacks or an       *)
(* override sequence holds two mapping elements of one identity that base  *)
(* lacks.                                                                  *)
(***************************************************************************)
NodeKept(n) ==
    /\ Kind(heap, n) = Kind(heap0, n)
    /\ Value(heap, n) = Value(heap0, n)
    /\ Tag(heap, n) = Tag(heap0, n)
    /\ Content(heap, n) = Content(heap0, n)

C16_OverrideReadOnly ==
    Merged => \A n \in Reach(heap0, override) : NodeKept(n)

(***************************************************************************)
(* C17: in a keyed sequence merge, an override element matched to a base   *)
(* element is treated as a drop exactly when it has a _drop field whose    *)
(* scalar value is the string "true" (a quoted string or a YAML boolean);  *)
(* for any other _drop value ("false", "True", "yes", a non-scalar value)  *)
(* and when _drop is absent, the matched base element is kept and merged   *)
(* instead of removed.                                                     *)
(***************************************************************************)
C17_DropOnlyOnTrue ==
    (Merged /\ KeyedMerge) =>
        \A i \in 1..Len(Items) :
            LET b == Before(i)
                a == After(i)
                ids == Content(b, root)
                item == Tree(b, Items[i])
                ident == FieldOrderIdentity(item)
                M == Matches(b, ident)
            IN (ident # <<>> /\ M # {} /\ UniqueKeys(item))
               => IF DropMarked(item)
                  THEN /\ Content(a, root) = Without(ids, Least(M))
                       /\ \A k \in 1..Len(ids) : Tree(a, ids[k]) = Tree(b, ids[k])
                  ELSE /\ Content(a, root) = ids
                       /\ a = mergeMappingNodes(b, ids[Least(M)], Items[i])

C17_Witness ==
    /\ Merged /\ KeyedMerge
    /\ Len(Items) = 1 /\ Len(Base0.Content) = 2
    /\ Matches(heap0, FieldOrderIdentity(Over0.Content[1])) = {2}
    /\ HasKey(Over0.Content[1], "_drop")
    /\ Get(Over0.Content[1], "_drop") = Str("True")
    /\ ~HasKey(Base0.Content[2], "_drop")
    /\ Len(Base1.Content) = 2
    /\ HasKey(Base1.Content[2], "_drop")

\* A quoted "true" drops the matched element.
C17_WitnessDropped ==
    /\ Merged /\ KeyedMerge
    /\ Len(Items) = 1 /\ Len(Base0.Content) = 2
    /\ Matches(heap0, FieldOrderIdentity(Over0.Content[1])) = {2}
    /\ HasKey(Over0.Content[1], "_drop")
    /\ Get(Over0.Content[1], "_drop") = Str("true")
    /\ Base1.Content = <<Base0.Content[1]>>

(***************************************************************************)
(* C18: patchExamples changes nothing in the tree when findNodeByKey finds *)
(* no examples key or when the node it finds under examples is not a       *)
(* sequence: the tree after the call equals the tree before it.            *)
(***************************************************************************)
C18_NoExamplesListNoChange ==
    (Patched /\ (Located(heap0) = Nil \/ Kind(heap0, Located(heap0)) # SequenceNode))
    => /\ Tree(heap, root) = Tree(heap0, root)
       /\ heap = heap0

C18_Witness ==
    /\ Patched
    /\ Located(heap0) # Nil
    /\ Tree(heap0, Located(heap0)) =
          Mapping(Pairs(<<<<"x", Mapping(Pairs(<<<<"name", Str("a")>>>>))>>>>))
    /\ Tree(heap, root) = Tree(heap0, root)

\* The first examples key holds a scalar; a later one holds a list, left unpatched.
C18_WitnessLaterList ==
    /\ Patched
    /\ Located(heap0) # Nil
    /\ Kind(heap0, Located(heap0)) = ScalarNode
    /\ Len(Occurrences(heap0, root, "examples")) = 2
    /\ Tree(heap, root) = Tree(heap0, root)

(***************************************************************************)
(* C19: a mapping merge never removes or reorders a base key: the list of  *)
(* keys of the base mapping before the merge is a prefix of its list of    *)
(* keys after the merge, and the added suffix is exactly the override keys *)
(* that were absent from base, in override's order (a key that override    *)
(* repeats being added once, where it first stands).                       *)
(***************************************************************************)
Keys(t) == [p \in 1..NPairs(t) |-> KeyAt(t, p).Value]
MappingMerge ==
    /\ Merged
    /\ Base0.Kind = Over0.Kind
    /\ RootOf(Base0).Kind = MappingNode
    /\ RootOf(Over0).Kind = MappingNode

\* The keys of ks, from position p on, that are not in seen, each once.
RECURSIVE AbsentKeys(_, _, _)
AbsentKeys(ks, p, seen) ==
    IF p > Len(ks) THEN <<>>
    ELSE IF ks[p] \in seen THEN AbsentKeys(ks, p + 1, seen)
    ELSE <<ks[p]>> \o AbsentKeys(ks, p + 1, seen \cup {ks[p]})

C19_KeysKeptNewKeysAppended ==
    MappingMerge =>
        LET before == Keys(RootOf(Base0))
            after == Keys(RootOf(Base1))
        IN /\ Len(after) >= Len(before)
           /\ SubSeq(after, 1, Len(before)) = before
           /\ SubSeq(after, Len(before) + 1, Len(after))
                 = AbsentKeys(Keys(RootOf(Over0)), 1, {before[p] : p \in 1..Len(before)})

C19_Witness ==
    /\ MappingMerge
    /\ Keys(Base0) = <<"x", "name">>
    /\ Keys(Over0) = <<"y", "x">>
    /\ Keys(Base1) = <<"x", "name", "y">>
    /\ Get(Base1, "x") # Get(Base0, "x")

\* A key that override repeats and base lacks is added once.
C19_WitnessRepeated ==
    /\ MappingMerge
    /\ Keys(Base0) = <<"name">>
    /\ Keys(Over0) = <<"y", "y">>
    /\ Keys(Base1) = <<"name", "y">>

(***************************************************************************)
(* C20 as claimed: mergeYAMLNodes leaves base entirely unchanged when      *)
(* override is a Mapping and base a Scalar or a Sequence, when override is *)
(* a Sequence and base a Scalar or a Mapping, when exactly one of the two  *)
(* is a Document, when either document has no child, and when either       *)
(* argument is absent.                                                     *)
(***************************************************************************)
Called == pc = "done" /\ call.fn = "mergeYAMLNodes"
Absent == root = Nil \/ override = Nil
KindOfRoot == Kind(heap0, root)
KindOfOverride == Kind(heap0, override)
CollectionMismatch ==
    \/ KindOfOverride = MappingNode /\ KindOfRoot \in {ScalarNode, SequenceNode}
    \/ KindOfOverride = SequenceNode /\ KindOfRoot \in {ScalarNode, MappingNode}
OneDocument == (KindOfRoot = DocumentNode) # (KindOfOverride = DocumentNode)
ChildlessDocument ==
    \/ KindOfRoot = DocumentNode /\ ContentLen(heap0, root) = 0
    \/ KindOfOverride = DocumentNode /\ ContentLen(heap0, override) = 0

C20_OtherPairsChangeNothing ==
    (Called /\ (Absent \/ CollectionMismatch \/ OneDocument \/ ChildlessDocument))
    => heap = heap0

(***************************************************************************)
(* C20 as amended: mergeYAMLNodes leaves base entirely unchanged when      *)
(* override is a Mapping and base a Scalar or a Sequence, when override is *)
(* a Sequence and base a Scalar or a Mapping, when exactly one of the two  *)
(* is a Document and override is not a Scalar, when both are documents and *)
(* either has no child, and when either argument is absent.  A Scalar      *)
(* override is the enumerated case "override wins" for a Document base     *)
(* too: base's value and tag become override's.                            *)
(***************************************************************************)
C20_OtherPairsUnlessScalarOverride ==
    Called =>
      /\ (Absent \/ CollectionMismatch
          \/ (OneDocument /\ KindOfOverride # ScalarNode)
          \/ (ChildlessDocument /\ KindOfOverride # ScalarNode))
            => heap = heap0
      /\ (~Absent /\ KindOfRoot = DocumentNode /\ KindOfOverride = ScalarNode)
            => /\ Value(heap, root) = Value(heap0, override)
               /\ Tag(heap, root) = Tag(heap0, override)
               /\ heap = [heap0 EXCEPT !.nodes[root].Value = Value(heap0, override),
                                       !.nodes[root].Tag = Tag(heap0, override)]

C20_Witness ==
    /\ Called
    /\ ~Absent
    /\ Tree(heap0, root) = Mapping(Pairs(<<<<"x", Str("a")>>>>))
    /\ Tree(heap0, override) = Sequence(<<Mapping(Pairs(<<<<"name", Str("a")>>>>))>>)
    /\ heap = heap0

\* A nil override.
C20_WitnessAbsent ==
    /\ Called
    /\ override = Nil /\ root # Nil
    /\ Kind(heap0, root) = MappingNode
    /\ heap = heap0

(***************************************************************************)
(* C21: patchExamples changes only config_path values.  In each mapping    *)
(* element of the examples list that already has a config_path key the     *)
(* value node of the first such key is written in place and the element's  *)
(* child list is the same list; in each mapping element without one,       *)
(* exactly one pair, with the scalar key config_path, is appended at the   *)
(* end of its child list; every other node of the tree, each element's     *)
(* name included, and the list itself are unchanged.                       *)
(***************************************************************************)
\* The mapping elements of the examples list before the call.
ExampleMappings ==
    {ContentAt(heap0, Located(heap0), i - 1) : i \in 1..ContentLen(heap0, Located(heap0))}
        \cap {n \in 1..Len(heap0.nodes) : Kind(heap0, n) = MappingNode}
HadConfigPath(e) == HasKey(Tree(heap0, e), "config_path")
Overwritten == {ValueNode(heap0, e, "config_path") : e \in {x \in ExampleMappings : HadConfigPath(x)}}
Extended == {e \in ExampleMappings : ~HadConfigPath(e)}

C21_OnlyConfigPathChanges ==
    (Patched /\ Located(heap0) # Nil /\ Kind(heap0, Located(heap0)) = SequenceNode) =>
        /\ Len(heap.nodes) = Len(heap0.nodes) + 2 * Cardinality(Extended)
        /\ \A n \in 1..Len(heap0.nodes) :
              /\ Kind(heap, n) = Kind(heap0, n)
              /\ Tag(heap, n) = Tag(heap0, n)
              /\ n \notin Overwritten => Value(heap, n) = Value(heap0, n)
              /\ n \notin Extended => Content(heap, n) = Content(heap0, n)
              /\ n \in Extended =>
                    /\ ContentLen(heap, n) = ContentLen(heap0, n) + 2
                    /\ SubSeq(Content(heap, n), 1, ContentLen(heap0, n)) = Content(heap0, n)
                    /\ ContentAt(heap, n, ContentLen(heap0, n)) > Len(heap0.nodes)
                    /\ ContentAt(heap, n, ContentLen(heap0, n) + 1) > Len(heap0.nodes)
                    /\ Kind(heap, ContentAt(heap, n, ContentLen(heap0, n))) = ScalarNode
                    /\ Value(heap, ContentAt(heap, n, ContentLen(heap0, n))) = "config_path"
                    /\ Kind(heap, ContentAt(heap, n, ContentLen(heap0, n) + 1)) = ScalarNode
        /\ \A e \in ExampleMappings :
              HasKey(Tree(heap0, e), "name") =>
                  Get(Tree(heap, e), "name") = Get(Tree(heap0, e), "name")

C21_Witness ==
    /\ Patched
    /\ Located(heap0) # Nil /\ Kind(heap0, Located(heap0)) = SequenceNode
    /\ Tree(heap0, Located(heap0)).Content =
          <<Mapping(Pairs(<<<<"config_path", Str("b")>>, <<"config_path", Str("c")>>>>)),
            Mapping(Pairs(<<<<"name", Str("a")>>>>))>>
    /\ env.TemplateDir = "t"
    /\ Cardinality(Overwritten) = 1 /\ Cardinality(Extended) = 1
    /\ LET es == Tree(heap, Located(heap0)).Content
       IN /\ Len(es[1].Content) = 4
          /\ es[1].Content[2].Value = "t/examples/.tmpl"
          /\ es[1].Content[4] = Str("c")
          /\ Len(es[2].Content) = 4
          /\ es[2].Content[2] = Str("a")
          /\ es[2].Content[3].Value = "config_path"
          /\ es[2].Content[4].Value = "t/examples/a.tmpl"

(***************************************************************************)
(* C22: when base and override are Sequences and the override sequence     *)
(* holds at least one mapping element together with at least one element   *)
(* that is not a mapping, base's elements after the merge are exactly      *)
(* override's, in the same order, as for a sequence of scalars.            *)
(***************************************************************************)
MixedOverride ==
    /\ Merged
    /\ Base0.Kind = SequenceNode /\ Over0.Kind = SequenceNode
    /\ \E i \in 1..Len(Over0.Content) : Over0.Content[i].Kind = MappingNode
    /\ \E i \in 1..Len(Over0.Content) : Over0.Content[i].Kind # MappingNode

C22_MixedSequenceReplaced ==
    MixedOverride =>
        /\ Content(heap, root) = Content(heap0, override)
        /\ Base1.Content = Over0.Content

(***************************************************************************)
(* C23: Resource.Unmarshal merges the override file, then patches the      *)
(* example paths, then serializes the tree for the schema parser; so in    *)
(* the document handed to the schema parser every mapping element of the   *)
(* examples list has a config_path that is the scalar string               *)
(* <templateDirectory>/examples/<name>.tmpl, <name> being the element's    *)
(* name after the override merge, whatever config_path the base file or    *)
(* the override file supplied.                                             *)
(***************************************************************************)
HandedExamples ==
    IF handed.Kind = MappingNode /\ HasKey(handed, "examples")
          /\ Get(handed, "examples").Kind = SequenceNode
    THEN Get(handed, "examples").Content
    ELSE <<>>

C23_HandedConfigPathDerived ==
    (Unmarshalled("Resource.Unmarshal") /\ err = "") =>
        \A i \in 1..Len(HandedExamples) :
            LET e == HandedExamples[i]
            IN e.Kind = MappingNode =>
                  /\ HasKey(e, "config_path")
                  /\ Get(e, "config_path").Kind = ScalarNode
                  /\ Get(e, "config_path").Value =
                        env.TemplateDir \o "/examples/" \o NameOf(e) \o ".tmpl"

(***************************************************************************)
(* C24: the drop marker is never copied into base: after the merge, a      *)
(* mapping element of a sequence of the base tree has a _drop field only   *)
(* if that element was in the base tree with a _drop field before the      *)
(* merge; so also for an override element with _drop: true that matches no *)
(* base element and for a matched override element with _drop: false.      *)
(***************************************************************************)
\* The mapping elements, with a _drop field, of the sequences of the tree at n.
Marked(h, n) ==
    {e \in Reach(h, n) :
        /\ Kind(h, e) = MappingNode
        /\ HasKey(Tree(h, e), "_drop")
        /\ \E s \in Reach(h, n) :
              Kind(h, s) = SequenceNode /\ IndexOf(Content(h, s), e) # 0}

C24_DropNeverCopied ==
    Merged => Marked(heap, root) \subseteq Marked(heap0, root)

(***************************************************************************)
(* C25: the merge preserves the mapping invariant: if before the merge     *)
(* every mapping of the base tree and of the override tree has an even     *)
(* number of child nodes and pairwise-distinct keys, then after the merge  *)
(* every mapping reachable from base has an even number of child nodes and *)
(* pairwise-distinct keys.                                                 *)
(***************************************************************************)
MappingInvariant(h, n) ==
    \A m \in Reach(h, n) :
        Kind(h, m) = MappingNode =>
            /\ ContentLen(h, m) % 2 = 0
            /\ \A p, q \in 0..(ContentLen(h, m) \div 2 - 1) :
                  p # q => Value(h, ContentAt(h, m, 2 * p)) # Value(h, ContentAt(h, m, 2 * q))

C25_MappingInvariantPreserved ==
    (Merged /\ MappingInvariant(heap0, root) /\ MappingInvariant(heap0, override)) =>
        MappingInvariant(heap, root)

C25_Witness ==
    /\ Merged
    /\ MappingInvariant(heap0, root) /\ MappingInvariant(heap0, override)
    /\ Base0 = Mapping(Pairs(<<<<"name", Str("a")>>, <<"x", Str("a")>>>>))
    /\ Over0 = Mapping(Pairs(<<<<"x", Str("b")>>, <<"y", Str("b")>>>>))
    /\ Keys(Base1) = <<"name", "x", "y">>
    /\ Get(Base1, "x") = Str("b")
    /\ MappingInvariant(heap, root)

C25_WitnessInSequence ==
    /\ Merged
    /\ MappingInvariant(heap0, root) /\ MappingInvariant(heap0, override)
    /\ Base0.Kind = SequenceNode /\ Over0.Kind = SequenceNode
    /\ Len(Over0.Content) = 2 /\ Len(Base0.Content) = 1
    /\ Len(Base1.Content) = 2
    /\ Base1.Content[1].Kind = MappingNode
    /\ NPairs(Base1.Content[1]) > NPairs(Base0.Content[1])
    /\ Base1.Content[2] = Over0.Content[2]

(***************************************************************************)
(* C26: overrideYAML completes without failure for every source file path, *)
(* a path of fewer than two segments (a bare file name) included: for such *)
(* a path no override is applied and the base tree is unchanged; and       *)
(* Unmarshal does not fail on it either.                                   *)
(***************************************************************************)
C26_CompletesForEveryPath ==
    /\ Overridden =>
          /\ err = ""
          /\ ~Derived => HeapKept /\ override = Nil
    /\ (Unmarshalled("Resource.Unmarshal") \/ Unmarshalled("Product.Unmarshal")) =>
          err # "panic"

(***************************************************************************)
(* The generator side.  TemplateData.writeFile over the output files: the  *)
(* file system holds, for each output path, no file or a file with its     *)
(* content and whether it can be written, the template files present, and  *)
(* whether the directory of the target can be made.                        *)
(***************************************************************************)
NoOutput == [exists |-> FALSE, content |-> <<>>, writable |-> FALSE]
OutFile(c, w) == [exists |-> TRUE, content |-> c, writable |-> w]

\* os.Stat(path) returns no error.
fileExists(fs, path_) == fs.out[path_].exists

\* os.MkdirAll(path.Dir(filePath), 0755) returns no error.
MkdirAll(fs, filePath) == fs.dirs

\* What the template engine writes for a template and its input.
Rendered(templateName, input) == <<templateName, input>>

\* TemplateData.executeTemplate: ParseFiles fails when the template file is
\* not there.
executeTemplate(fs, templateName, input) ==
    IF templateName \in fs.templates
    THEN [err |-> "", contents |-> Rendered(templateName, input)]
    ELSE [err |-> "template: pattern matches no files", contents |-> <<>>]

\* os.WriteFile(filePath, contents, 0644): creates the file or truncates it.
WriteFile(fs, filePath, contents) ==
    IF fs.out[filePath].exists /\ ~fs.out[filePath].writable
    THEN [err |-> "permission denied", fs |-> fs]
    ELSE [err |-> "", fs |-> [fs EXCEPT !.out[filePath] = OutFile(contents, TRUE)]]

\* writeFile without the test of OverWrite.
writeFile_AlwaysOverWrite(td, fs, filePath, templateName, input) ==
    IF ~MkdirAll(fs, filePath)
    THEN [err |-> "error creating directory", fs |-> fs, executed |-> FALSE]
    ELSE LET r == executeTemplate(fs, templateName, input)
         IN IF r.err # "" THEN [err |-> r.err, fs |-> fs, executed |-> TRUE]
            ELSE LET w == WriteFile(fs, filePath, r.contents)
                 IN [err |-> w.err, fs |-> w.fs, executed |-> TRUE]

\* The error returned ("" for nil), the file system afterwards, and whether
\* executeTemplate was called.
writeFile(td, fs, filePath, templateName, input) ==
    IF ~MkdirAll(fs, filePath)
    THEN [err |-> "error creating directory", fs |-> fs, executed |-> FALSE]
    ELSE IF fileExists(fs, filePath) /\ ~td.OverWrite
    THEN [err |-> "file already exists", fs |-> fs, executed |-> FALSE]
    ELSE LET r == executeTemplate(fs, templateName, input)
         IN IF r.err # "" THEN [err |-> r.err, fs |-> fs, executed |-> TRUE]
            ELSE LET w == WriteFile(fs, filePath, r.contents)
                 IN [err |-> w.err, fs |-> w.fs, executed |-> TRUE]

(***************************************************************************)
(* breakLineByLength.  A line is a sequence of words and runs of white     *)
(* space, each with its length in bytes; what strings.Fields returns is    *)
(* its words.                                                              *)
(***************************************************************************)
MAX_DESCRIPTION_LENGTH == 140

Word(t, n) == [word |-> TRUE, text |-> t, len |-> n]
Space(n) == [word |-> FALSE, text |-> " ", len |-> n]

\* len(s)
RECURSIVE LenOf(_)
LenOf(s) == IF s = <<>> THEN 0 ELSE s[1].len + LenOf(Tail(s))

\* strings.Fields(line)
Fields(line) == SelectSeq(line, LAMBDA x : x.word)

RECURSIVE breakLoop(_, _, _, _)
breakLoop(words, i, currentChunk, chunks) ==
    IF i > Len(words)
    THEN IF currentChunk # <<>> THEN Append(chunks, currentChunk) ELSE chunks
    ELSE LET word == words[i]
             testChunk == IF currentChunk # <<>>
                          THEN currentChunk \o <<Space(1)>> \o <<word>>
                          ELSE <<word>>
         IN IF LenOf(testChunk) <= MAX_DESCRIPTION_LENGTH
            THEN breakLoop(words, i + 1, testChunk, chunks)
            ELSE breakLoop(words, i + 1, <<word>>,
                           IF currentChunk # <<>> THEN Append(chunks, currentChunk) ELSE chunks)

breakLineByLength(line) ==
    IF LenOf(line) <= MAX_DESCRIPTION_LENGTH THEN <<line>>
    ELSE breakLoop(Fields(line), 1, <<>>, <<>>)

(***************************************************************************)
(* getDependency over an options map, iterated in the order the runtime    *)
(* picks, and ArgumentSpec.buildModuleConstraints.                         *)
(***************************************************************************)
\* The bytes of the option names of the model, as sort.Strings compares them.
Byte == [a |-> 97, b |-> 98, c |-> 99, d |-> 100]
StringLess(x, y) == Byte[x] < Byte[y]

\* sort.Strings
RECURSIVE sortStrings(_)
Insert(x, s) ==
    LET k == Cardinality({i \in 1..Len(s) : ~StringLess(x, s[i])})
    IN SubSeq(s, 1, k) \o <<x>> \o SubSeq(s, k + 1, Len(s))
sortStrings(s) == IF s = <<>> THEN <<>> ELSE Insert(s[Len(s)], sortStrings(SubSeq(s, 1, Len(s) - 1)))

\* strings.Join(group, ",")
RECURSIVE JoinComma(_)
JoinComma(g) ==
    IF g = <<>> THEN ""
    ELSE IF Len(g) = 1 THEN g[1]
    ELSE g[1] \o "," \o JoinComma(Tail(g))

\* The group of an option and the names it lists: each name is cut to what
\* follows its last dot (a name is the sequence strings.Split gives), and
\* the group is sorted.
GroupOf(optionName, names) ==
    sortStrings(<<optionName>> \o [i \in 1..Len(names) |-> names[i][Len(names[i])]])

NilMap == [nil |-> TRUE]
NilDependency == [nil |-> TRUE]

\* dependencyStep appending every group, seen or not.
dependencyStep_NoDedup(options, optionName, st) ==
    LET option == options[optionName]
        conflictGroup == GroupOf(optionName, option.Conflicts)
        st1 == IF Len(option.Conflicts) > 0
               THEN [st EXCEPT !.mutuallyExclusive = Append(@, conflictGroup)]
               ELSE st
        requiredGroup == GroupOf(optionName, option.RequiredWith)
    IN IF Len(option.RequiredWith) > 0
       THEN [st1 EXCEPT !.requiredTogether = Append(@, requiredGroup)]
       ELSE st1

\* One iteration of the loop over the map, for the option named optionName.
dependencyStep(options, optionName, st) ==
    LET option == options[optionName]
        conflictGroup == GroupOf(optionName, option.Conflicts)
        st1 == IF Len(option.Conflicts) > 0 /\ JoinComma(conflictGroup) \notin st.seenMutual
               THEN [st EXCEPT !.seenMutual = @ \cup {JoinComma(conflictGroup)},
                               !.mutuallyExclusive = Append(@, conflictGroup)]
               ELSE st
        requiredGroup == GroupOf(optionName, option.RequiredWith)
    IN IF Len(option.RequiredWith) > 0 /\ JoinComma(requiredGroup) \notin st1.seenRequired
       THEN [st1 EXCEPT !.seenRequired = @ \cup {JoinComma(requiredGroup)},
                        !.requiredTogether = Append(@, requiredGroup)]
       ELSE st1

RECURSIVE dependencyLoop(_, _, _, _)
dependencyLoop(options, order, i, st) ==
    IF i > Len(order) THEN st
    ELSE dependencyLoop(options, order, i + 1, dependencyStep(options, order[i], st))

\* getDependency(options) when range yields the keys of the map in order.
getDependency(options, order) ==
    IF options = NilMap THEN NilDependency
    ELSE LET st == dependencyLoop(options, order, 1,
                       [mutuallyExclusive |-> <<>>, requiredTogether |-> <<>>,
                        seenMutual |-> {}, seenRequired |-> {}])
         IN IF Len(st.mutuallyExclusive) = 0 /\ Len(st.requiredTogether) = 0
            THEN NilDependency
            ELSE [MutuallyExclusive |-> st.mutuallyExclusive,
                  RequiredTogether |-> st.requiredTogether]

\* The orders in which range can yield the keys of the map.
Orders(options) ==
    IF options = NilMap THEN {<<>>}
    ELSE {o \in [1..Cardinality(DOMAIN options) -> DOMAIN options] :
             \A i, j \in DOMAIN o : i # j => o[i] # o[j]}

\* pythonQuote: the string between double quotes (no name of the model holds
\* one to escape).
pythonQuote(s) == "\"" \o s \o "\""

RECURSIVE JoinWith(_, _)
JoinWith(l, sep) ==
    IF l = <<>> THEN ""
    ELSE IF Len(l) = 1 THEN l[1]
    ELSE l[1] \o sep \o JoinWith(Tail(l), sep)

pythonList(items) ==
    IF Len(items) = 0 THEN "[]"
    ELSE "[" \o JoinWith([i \in 1..Len(items) |-> pythonQuote(items[i])], ", ") \o "]"

pythonListOfLists(items) ==
    IF Len(items) = 0 THEN "[]"
    ELSE "[" \o JoinWith([i \in 1..Len(items) |-> pythonList(items[i])], ", ") \o "]"

buildModuleConstraints(Dependencies) ==
    IF Dependencies = NilDependency THEN ""
    ELSE LET m == IF Len(Dependencies.MutuallyExclusive) > 0
                  THEN <<"mutually_exclusive=" \o pythonListOfLists(Dependencies.MutuallyExclusive)>>
                  ELSE <<>>
             constraints ==
                  IF Len(Dependencies.RequiredTogether) > 0
                  THEN Append(m, "required_together=" \o pythonListOfLists(Dependencies.RequiredTogether))
                  ELSE m
         IN IF Len(constraints) = 0 THEN "" ELSE JoinWith(constraints, ",\n")

(***************************************************************************)
(* Inputs of the generator side.                                           *)
(***************************************************************************)
MaxWords == 3
MaxOptions == 3

OutPaths == {"plugins/modules/m.py", "tests/integration/targets/m/tasks/main.yml"}
OutStates == {NoOutput, OutFile(<<"old">>, TRUE), OutFile(<<"old">>, FALSE)}
TemplateNames == {"plugins/module.tmpl", "tests/main.yml.tmpl"}
FileSystems ==
    {[dirs |-> d, templates |-> t, out |-> o] :
        d \in BOOLEAN, t \in {{}, {"plugins/module.tmpl"}}, o \in [OutPaths -> OutStates]}
WriteCalls ==
    {[td |-> [OverWrite |-> w], filePath |-> f, templateName |-> t, input |-> i] :
        w \in BOOLEAN, f \in OutPaths, t \in TemplateNames, i \in {"r"}}

WordLens == {1, 70, 139, 140, 141}
Words == {Word("w", n) : n \in WordLens}
Interleave(ws, sp) ==
    [i \in 1..(2 * Len(ws) - 1) |-> IF i % 2 = 1 THEN ws[(i + 1) \div 2] ELSE Space(sp)]
Lines ==
    {<<>>, <<Space(141)>>}
    \cup {Interleave(ws, sp) : ws \in SeqsUpTo(Words, MaxWords) \ {<<>>}, sp \in {1, 2}}
    \cup {<<Space(1)>> \o Interleave(ws, 1) \o <<Space(1)>> : ws \in SeqsUpTo(Words, MaxWords) \ {<<>>}}

OptionNames == {<<"a", "b", "c", "d">>[i] : i \in 1..MaxOptions}
NameLists == {<<>>, <<<<"a">>>>, <<<<"b">>>>, <<<<"x", "b">>>>, <<<<"b">>, <<"c">>>>}
RequiredLists == {<<>>, <<<<"a">>>>, <<<<"b">>>>}
Option(c, r) == [Conflicts |-> c, RequiredWith |-> r]
OptionValues ==
    {Option(c, <<>>) : c \in NameLists}
    \cup {Option(<<>>, r) : r \in RequiredLists}
    \cup {Option(<<<<"a">>>>, <<<<"a">>>>), Option(<<<<"b">>>>, <<<<"b">>>>)}
OptionMaps ==
    {NilMap}
    \cup UNION {[S -> OptionValues] : S \in SUBSET OptionNames}
DependencySamples ==
    {NilDependency,
     [MutuallyExclusive |-> <<<<"a", "b">>>>, RequiredTogether |-> <<>>],
     [MutuallyExclusive |-> <<>>, RequiredTogether |-> <<<<"a", "b">>, <<"b", "c">>>>],
     [MutuallyExclusive |-> <<<<"a", "b">>, <<"a", "c">>>>, RequiredTogether |-> <<<<"b", "c">>>>],
     [MutuallyExclusive |-> <<>>, RequiredTogether |-> <<>>]}

(***************************************************************************)
(* The generator's calls.                                                  *)
(***************************************************************************)
\* The receiver and the arguments of writeFile, with the file system as the
\* call finds it.
WriteArgs(c, fs) ==
    [td |-> c.td, filePath |-> c.filePath, templateName |-> c.templateName,
     input |-> c.input, files0 |-> fs]

StartGenerator(fn, a, fs) ==
    /\ heap = EmptyHeap
    /\ heap0 = EmptyHeap
    /\ root = Nil
    /\ override = Nil
    /\ call = [fn |-> fn, key |-> ""]
    /\ found = Nil
    /\ pc = "start"
    /\ env = NoEnv
    /\ err = ""
    /\ handed = NoData
    /\ args = a
    /\ files = fs
    /\ ret = NoArgs

GenInit ==
    \/ \E c \in WriteCalls, fs \in FileSystems :
          /\ fs.out[c.filePath].exists => fs.dirs
          /\ StartGenerator("writeFile", WriteArgs(c, fs), fs)
    \/ \E l \in Lines : StartGenerator("breakLineByLength", [line |-> l], <<>>)
    \/ \E m \in OptionMaps : StartGenerator("getDependency", [options |-> m], <<>>)
    \/ \E d \in DependencySamples :
          StartGenerator("buildModuleConstraints", [Dependencies |-> d], <<>>)

CallWriteFile ==
    /\ pc = "start"
    /\ call.fn = "writeFile"
    /\ LET r == writeFile(args.td, files, args.filePath, args.templateName, args.input)
       IN /\ files' = r.fs
          /\ ret' = [err |-> r.err, executed |-> r.executed]
    /\ pc' = "done"
    /\ UNCHANGED <<heap, heap0, root, override, call, found, env, err, handed, args>>

CallBreakLineByLength ==
    /\ pc = "start"
    /\ call.fn = "breakLineByLength"
    /\ ret' = breakLineByLength(args.line)
    /\ pc' = "done"
    /\ UNCHANGED <<heap, heap0, root, override, call, found, env, err, handed, args, files>>

\* range yields the keys of the map in an order the runtime picks.
CallGetDependency ==
    /\ pc = "start"
    /\ call.fn = "getDependency"
    /\ \E order \in Orders(args.options) : ret' = getDependency(args.options, order)
    /\ pc' = "done"
    /\ UNCHANGED <<heap, heap0, root, override, call, found, env, err, handed, args, files>>

CallBuildModuleConstraints ==
    /\ pc = "start"
    /\ call.fn = "buildModuleConstraints"
    /\ ret' = buildModuleConstraints(args.Dependencies)
    /\ pc' = "done"
    /\ UNCHANGED <<heap, heap0, root, override, call, found, env, err, handed, args, files>>

GenNext ==
    \/ CallWriteFile
    \/ CallBreakLineByLength
    \/ CallGetDependency
    \/ CallBuildModuleConstraints

GenSpec == GenInit /\ [][GenNext]_vars

(***************************************************************************)
(* C27: writeFile never replaces an existing output file when OverWrite is *)
(* false: when the target path exists it returns the error 'file already   *)
(* exists' without executing the template and every file is as it was;     *)
(* when OverWrite is true and the call returns no error, the existing      *)
(* file's content is the rendered template, which is the case whenever the *)
(* template is there and the file can be written.                          *)
(***************************************************************************)
Wrote == pc = "done" /\ call.fn = "writeFile"
Existed == args.files0.out[args.filePath].exists

C27_NoReplaceUnlessOverWrite ==
    (Wrote /\ Existed) =>
        /\ ~args.td.OverWrite =>
              /\ ret.err = "file already exists"
              /\ ~ret.executed
              /\ files = args.files0
        /\ args.td.OverWrite =>
              /\ ret.err = "" =>
                    /\ files.out[args.filePath].exists
                    /\ files.out[args.filePath].content = Rendered(args.templateName, args.input)
              /\ (/\ args.templateName \in args.files0.templates
                  /\ args.files0.out[args.filePath].writable) => ret.err = ""
              /\ ret.err # "" => files = args.files0
        /\ \A q \in OutPaths \ {args.filePath} : files.out[q] = args.files0.out[q]

C27_Witness ==
    /\ Wrote /\ Existed
    /\ ~args.td.OverWrite
    /\ args.templateName \in args.files0.templates
    /\ args.files0.out[args.filePath] = OutFile(<<"old">>, TRUE)
    /\ ret.err = "file already exists"
    /\ files.out[args.filePath].content = <<"old">>

C27_WitnessOverWrite ==
    /\ Wrote /\ Existed
    /\ args.td.OverWrite
    /\ args.files0.out[args.filePath] = OutFile(<<"old">>, TRUE)
    /\ ret.err = ""
    /\ files.out[args.filePath].content = <<"plugins/module.tmpl", "r">>

(***************************************************************************)
(* C28: for every input line, each chunk breakLineByLength returns has at  *)
(* most MAX_DESCRIPTION_LENGTH (140) bytes, and the line is broken only    *)
(* between words: the words of the chunks, in order, are the words of the  *)
(* line; also when the line holds a single word longer than the limit.     *)
(***************************************************************************)
Broke == pc = "done" /\ call.fn = "breakLineByLength"

RECURSIVE WordsOf(_)
WordsOf(chunks) == IF chunks = <<>> THEN <<>> ELSE Fields(chunks[1]) \o WordsOf(Tail(chunks))

C28_ChunksWithinLimit ==
    Broke =>
        /\ \A i \in 1..Len(ret) : LenOf(ret[i]) <= MAX_DESCRIPTION_LENGTH
        /\ WordsOf(ret) = Fields(args.line)

(***************************************************************************)
(* C29: getDependency de-duplicates the groups: in the MutuallyExclusive   *)
(* list it returns, and in the RequiredTogether list, no two groups are    *)
(* permutations of one another, so two options that each list the other as *)
(* a conflict yield exactly one group; and it returns nil exactly when no  *)
(* option of the map has a Conflicts or a RequiredWith entry.              *)
(***************************************************************************)
Depended == pc = "done" /\ call.fn = "getDependency"

Count(g, x) == Cardinality({i \in 1..Len(g) : g[i] = x})
IsPermutation(g, h) ==
    /\ Len(g) = Len(h)
    /\ \A i \in 1..Len(g) : Count(g, g[i]) = Count(h, g[i])
NoPermutations(groups) ==
    \A i, j \in 1..Len(groups) : i # j => ~IsPermutation(groups[i], groups[j])

\* Some option of the map has a Conflicts or a RequiredWith entry.
HasEntry(options) ==
    /\ options # NilMap
    /\ \E n \in DOMAIN options :
          Len(options[n].Conflicts) > 0 \/ Len(options[n].RequiredWith) > 0

C29_GroupsDeduplicated ==
    Depended =>
        /\ ret = NilDependency <=> ~HasEntry(args.options)
        /\ ret # NilDependency =>
              /\ NoPermutations(ret.MutuallyExclusive)
              /\ NoPermutations(ret.RequiredTogether)
              /\ \A x, y \in DOMAIN args.options :
                    (/\ x # y
                     /\ args.options[x].Conflicts = <<<<y>>>>
                     /\ args.options[y].Conflicts = <<<<x>>>>) =>
                        Cardinality({i \in 1..Len(ret.MutuallyExclusive) :
                                        IsPermutation(ret.MutuallyExclusive[i], <<x, y>>)}) = 1
              /\ \A x, y \in DOMAIN args.options :
                    (/\ x # y
                     /\ args.options[x].RequiredWith = <<<<y>>>>
                     /\ args.options[y].RequiredWith = <<<<x>>>>) =>
                        Cardinality({i \in 1..Len(ret.RequiredTogether) :
                                        IsPermutation(ret.RequiredTogether[i], <<x, y>>)}) = 1

C29_Witness ==
    /\ Depended
    /\ args.options # NilMap
    /\ DOMAIN args.options = {"a", "b"}
    /\ args.options["a"] = Option(<<<<"b">>>>, <<<<"b">>>>)
    /\ args.options["b"] = Option(<<<<"a">>>>, <<<<"a">>>>)
    /\ ret = [MutuallyExclusive |-> <<<<"a", "b">>>>, RequiredTogether |-> <<<<"a", "b">>>>]

C29_WitnessNil ==
    /\ Depended
    /\ args.options # NilMap
    /\ DOMAIN args.options = {"a", "b"}
    /\ ~HasEntry(args.options)
    /\ ret = NilDependency

(***************************************************************************)
(* C30: getDependency is deterministic in its output order: whatever order *)
(* the options map is iterated in, the MutuallyExclusive and               *)
(* RequiredTogether lists returned for one map are the same, the order of  *)
(* their groups included, and so is the mutually_exclusive /               *)
(* required_together text buildModuleConstraints emits from them.          *)
(***************************************************************************)
C30_OutputOrderDeterministic ==
    Depended =>
        \A order \in Orders(args.options) :
            /\ getDependency(args.options, order) = ret
            /\ buildModuleConstraints(getDependency(args.options, order))
                  = buildModuleConstraints(ret)

====
